---- MODULE Spec2Model ----
(***************************************************************************)
(* Desktop_overlay_manager: the blocking command dispatcher (caller        *)
(* threads, the Tk worker thread, the command queue and the per-call       *)
(* futures), the manager's commands, the markers' pointer handlers and the *)
(* configuration document with its file.                                   *)
(***************************************************************************)
EXTENDS Integers, Sequences, FiniteSets, TLC

(* ------------------------------------------------------------------ *)
(* Bounds of the model                                                *)
(* ------------------------------------------------------------------ *)
NumCallers == 2
MaxCalls == 3
ScreenW == 300
ScreenH == 200

Callers == 1..NumCallers
RectIds == {"r1"}
PointIds == {"p1"}

(* ------------------------------------------------------------------ *)
(* Program constants                                                  *)
(* ------------------------------------------------------------------ *)
DEFAULT_RECT == [x |-> 120, y |-> 120, width |-> 240, height |-> 160]
DEFAULT_POINT == [x |-> 160, y |-> 160]
MinSize == 50
ResizeHandleSize == 10
PointSize == 8
PointWindowSize == 150

RectFields == {"x", "y", "width", "height"}
PointFields == {"x", "y"}

Max(a, b) == IF a >= b THEN a ELSE b
Min(a, b) == IF a <= b THEN a ELSE b

(* A dict as a function; d.get(k, default) and d[k] = v.               *)
Get(d, k, default) == IF k \in DOMAIN d THEN d[k] ELSE default
Put(d, k, v) == [j \in (DOMAIN d) \cup {k} |-> IF j = k THEN v ELSE d[j]]
EmptyDict == [j \in {} |-> 0]

(* A persisted value that is no JSON object, e.g. "rects": {"r1": 5}.  *)
NotADict == [notdict |-> TRUE]
IsDict(v) == "notdict" \notin DOMAIN v

VARIABLES
    (* the dispatcher *)
    tk_thread,        \* _tk_thread: index into threads, 0 for None
    threads,          \* every Thread object created: [pc, cur]
    tk_queue,         \* _tk_queue: entries [future, func, seq]
    stop_event,       \* _stop_event
    root_ready,       \* _root_ready
    futures,          \* the Future of each caller's current call
    (* the caller threads *)
    pc,               \* where each caller is in its public call
    call,             \* the call each caller is making
    ncalls,           \* public calls begun so far
    (* the manager *)
    rects,            \* _rects: id -> DraggableOverlay
    points,           \* _points: id -> DraggablePoint
    rect_configs,     \* _rect_configs (= _config["rects"])
    point_configs,    \* _point_configs (= _config["points"])
    file,             \* overlays.json: <<>> when absent, else <<document>>
    overlay_registry, \* overlay._overlay_registry
    point_registry,   \* overlay._point_registry
    grab,             \* the surface holding the pressed pointer, if any
    (* the configuration directory, where the store is studied *)
    disk,             \* path -> <<>> when absent, else <<text>>
    io,               \* where the process is in a load or a save
    (* the rest of the process *)
    other,            \* _rects and _points of another OverlayManager
    (* history *)
    hist

vars == <<tk_thread, threads, tk_queue, stop_event, root_ready, futures, pc,
          call, ncalls, rects, points, rect_configs, point_configs, file,
          overlay_registry, point_registry, grab, disk, io, other, hist>>

dispatcherVars == <<tk_thread, threads, tk_queue, stop_event, root_ready, futures>>
callerVars == <<pc, call, ncalls>>
managerVars == <<rects, points, rect_configs, point_configs, file,
                 overlay_registry, point_registry, disk, io, other>>

(* ------------------------------------------------------------------ *)
(* overlay.py: DraggableOverlay                                       *)
(* ------------------------------------------------------------------ *)
DefaultStyle == [draggable |-> TRUE, resizable |-> TRUE]

Overlay_init(x, y, width, height, label, style) ==
    [x |-> x, y |-> y, width |-> width, height |-> height, label |-> label,
     cb_label |-> label,
     draggable |-> style.draggable, resizable |-> style.resizable,
     dragging |-> FALSE, resizing |-> FALSE,
     start_x |-> 0, start_y |-> 0, offset_x |-> 0, offset_y |-> 0,
     start_width |-> 0, start_height |-> 0,
     visible |-> FALSE]

(* A show that builds the marker anew, at rest, whatever it was.       *)
show_anew(o) == [o EXCEPT !.visible = TRUE, !.dragging = FALSE, !.resizing = FALSE]

Overlay_show(o) == IF o.visible THEN o ELSE [o EXCEPT !.visible = TRUE]

Overlay_hide(o) == IF ~o.visible THEN o ELSE [o EXCEPT !.visible = FALSE]

Overlay_update_position(o, x, y) == [o EXCEPT !.x = x, !.y = y]

Overlay_update_size(o, width, height) ==
    [o EXCEPT !.width = Max(MinSize, width), !.height = Max(MinSize, height)]

Overlay_update_label(o, label) == [o EXCEPT !.label = label]

Overlay_get_position(o) ==
    [x |-> o.x, y |-> o.y, width |-> o.width, height |-> o.height]

create_overlay(x, y, width, height, label, style) ==
    Overlay_show(Overlay_init(x, y, width, height, label, style))

(* A handle without its top and left edges.                            *)
handle_without_edge(o, ex, ey) ==
    IF ~o.resizable THEN FALSE
    ELSE ex > o.width - ResizeHandleSize /\ ey > o.height - ResizeHandleSize

is_in_resize_handle(o, ex, ey) ==
    IF ~o.resizable THEN FALSE
    ELSE ex >= o.width - ResizeHandleSize /\ ey >= o.height - ResizeHandleSize

(* A press that starts a drag whatever the resizing flag says.         *)
press_ignoring_resizing(o, e) ==
    IF is_in_resize_handle(o, e.x, e.y) THEN o
    ELSE IF o.draggable
         THEN [o EXCEPT !.dragging = TRUE,
                        !.start_x = e.x_root, !.start_y = e.y_root,
                        !.offset_x = o.x, !.offset_y = o.y]
         ELSE o

(* event = [x, y, x_root, y_root]; winfo_x/winfo_y of the surface are  *)
(* the position last given to geometry().                              *)
Overlay_on_mouse_press(o, e) ==
    IF is_in_resize_handle(o, e.x, e.y) THEN o
    ELSE IF o.draggable /\ ~o.resizing
         THEN [o EXCEPT !.dragging = TRUE,
                        !.start_x = e.x_root, !.start_y = e.y_root,
                        !.offset_x = o.x, !.offset_y = o.y]
         ELSE o

Overlay_on_resize_press(o, e) ==
    IF ~o.resizable THEN o
    ELSE [o EXCEPT !.dragging = FALSE, !.resizing = TRUE,
                   !.start_x = e.x_root, !.start_y = e.y_root,
                   !.start_width = o.width, !.start_height = o.height,
                   !.offset_x = o.x, !.offset_y = o.y]

Overlay_on_resize_drag(o, e) ==
    IF ~o.resizing \/ ~o.resizable THEN o
    ELSE LET new_width == Max(MinSize, o.start_width + (e.x_root - o.start_x))
             new_height == Max(MinSize, o.start_height + (e.y_root - o.start_y))
         IN [o EXCEPT !.dragging = FALSE,
                      !.width = Min(new_width, ScreenW - o.offset_x),
                      !.height = Min(new_height, ScreenH - o.offset_y)]

(* A drag that follows the pointer with no clamping to the screen.     *)
drag_unclamped(o, e) ==
    IF o.resizing THEN Overlay_on_resize_drag(o, e)
    ELSE IF o.dragging /\ o.draggable
         THEN [o EXCEPT !.x = o.offset_x + (e.x_root - o.start_x),
                        !.y = o.offset_y + (e.y_root - o.start_y)]
         ELSE o

Overlay_on_mouse_drag_global(o, e) ==
    IF o.resizing THEN Overlay_on_resize_drag(o, e)
    ELSE IF o.dragging /\ o.draggable
         THEN LET new_x == o.offset_x + (e.x_root - o.start_x)
                  new_y == o.offset_y + (e.y_root - o.start_y)
              IN [o EXCEPT !.x = Max(0, Min(new_x, ScreenW - o.width)),
                           !.y = Max(0, Min(new_y, ScreenH - o.height))]
         ELSE o

(* A release handler that notifies and leaves the mode as it is.       *)
release_keeps_mode(o) ==
    IF o.resizing \/ o.dragging
    THEN [o |-> o, notify |-> TRUE]
    ELSE [o |-> o, notify |-> FALSE]

(* _on_mouse_release_global: the marker after the release, and whether *)
(* _notify_callback was called.                                        *)
Overlay_on_mouse_release_global(o) ==
    IF o.resizing \/ o.dragging
    THEN [o |-> [o EXCEPT !.resizing = FALSE, !.dragging = FALSE], notify |-> TRUE]
    ELSE [o |-> o, notify |-> FALSE]

(* ------------------------------------------------------------------ *)
(* overlay.py: DraggablePoint                                         *)
(* ------------------------------------------------------------------ *)
Point_init(x, y, label) ==
    [x |-> x, y |-> y, label |-> label, cb_label |-> label,
     draggable |-> TRUE, dragging |-> FALSE,
     start_x |-> 0, start_y |-> 0, offset_x |-> 0, offset_y |-> 0,
     window_size |-> PointWindowSize, visible |-> FALSE]

Point_show(p) == IF p.visible THEN p ELSE [p EXCEPT !.visible = TRUE]

Point_hide(p) == IF ~p.visible THEN p ELSE [p EXCEPT !.visible = FALSE]

Point_update_position(p, x, y) == [p EXCEPT !.x = x, !.y = y]

Point_update_label(p, label) == [p EXCEPT !.label = label]

Point_get_position(p) == [x |-> p.x, y |-> p.y]

create_point(x, y, label) == Point_show(Point_init(x, y, label))

Point_on_mouse_press(p, e) ==
    IF p.draggable
    THEN [p EXCEPT !.dragging = TRUE,
                   !.start_x = e.x_root, !.start_y = e.y_root,
                   !.offset_x = p.x - (p.window_size \div 2),
                   !.offset_y = p.y - (p.window_size \div 2)]
    ELSE p

(* A drag that follows the pointer wherever it goes.                   *)
point_drag_unclamped(p, e) ==
    IF p.dragging /\ p.draggable
    THEN [p EXCEPT !.x = p.offset_x + (e.x_root - p.start_x) + (p.window_size \div 2),
                   !.y = p.offset_y + (e.y_root - p.start_y) + (p.window_size \div 2)]
    ELSE p

Point_on_mouse_drag(p, e) ==
    IF p.dragging /\ p.draggable
    THEN LET wx == Max(0, Min(p.offset_x + (e.x_root - p.start_x), ScreenW - p.window_size))
             wy == Max(0, Min(p.offset_y + (e.y_root - p.start_y), ScreenH - p.window_size))
             new_x == wx + (p.window_size \div 2)
             new_y == wy + (p.window_size \div 2)
         IN [p EXCEPT !.x = Max(PointSize, Min(new_x, ScreenW - PointSize)),
                      !.y = Max(PointSize, Min(new_y, ScreenH - PointSize))]
    ELSE p

Point_on_mouse_release(p) ==
    IF p.dragging
    THEN [o |-> [p EXCEPT !.dragging = FALSE], notify |-> TRUE]
    ELSE [o |-> p, notify |-> FALSE]

(* ------------------------------------------------------------------ *)
(* __init__.py: the commands the manager hands to the worker          *)
(* ------------------------------------------------------------------ *)
(* The state a command reads and writes, as one record.                *)
Manager ==
    [rects |-> rects, points |-> points,
     rect_configs |-> rect_configs, point_configs |-> point_configs,
     file |-> file, overlay_registry |-> overlay_registry,
     point_registry |-> point_registry, grab |-> grab, other |-> other]

(* What running a command gives: the new state, and the value it       *)
(* returned (<<>> is None) or the fact that it raised.                 *)
Ran(m, value) == [m |-> m, raised |-> FALSE, value |-> value]
Raised(m) == [m |-> m, raised |-> TRUE, value |-> <<>>]

write_config_file(m, data) == [m EXCEPT !.file = <<data>>]

(* A save that writes nothing.                                         *)
save_skipped(m) == m

save_all_configs(m) ==
    write_config_file(m, [rects |-> m.rect_configs, points |-> m.point_configs])

(* A callback that saves a document of rectangles only.                *)
RectCallbackAlone(m, rect_id, rect_label, nx, ny, w, h) ==
    save_all_configs(
        [m EXCEPT !.rect_configs =
            Put(@, rect_id, [x |-> nx, y |-> ny, width |-> w, height |-> h,
                             label |-> rect_label]),
                  !.point_configs = EmptyDict])

(* registerRect._create._callback, with the rect_id and rect_label its *)
(* closure holds.                                                      *)
RectCallback(m, rect_id, rect_label, nx, ny, w, h) ==
    save_all_configs(
        [m EXCEPT !.rect_configs =
            Put(@, rect_id, [x |-> nx, y |-> ny, width |-> w, height |-> h,
                             label |-> rect_label])])

PointCallback(m, point_id, point_label, nx, ny) ==
    save_all_configs(
        [m EXCEPT !.point_configs =
            Put(@, point_id, [x |-> nx, y |-> ny, label |-> point_label])])

(* A merge in which the persisted value wins over the explicit one.    *)
MergePersistedFirst(args, config, defaults, k) ==
    IF k \in DOMAIN config THEN config[k]
    ELSE IF k \in DOMAIN args THEN args[k] ELSE defaults[k]

(* x if x is not None else config.get("x", DEFAULT["x"]); args holds   *)
(* the geometry arguments that are not None.                           *)
MergeField(args, config, defaults, k) ==
    IF k \in DOMAIN args THEN args[k] ELSE Get(config, k, defaults[k])

(* label or config.get("label", id)                                    *)
MergeLabel(label, config, id) ==
    IF label # "" THEN label ELSE Get(config, "label", id)

(* An update of a live rectangle that ends with _notify_callback.      *)
RectUpdatedNotifying(m, id, x, y, width, height, label) ==
    LET o == Overlay_show(
               Overlay_update_label(
                 Overlay_update_size(
                   Overlay_update_position(m.rects[id], x, y), width, height),
                 label))
    IN RectCallback([m EXCEPT !.rects[id] = o], id, o.cb_label,
                    o.x, o.y, o.width, o.height)

(* The branch of _create for an id that has a live rectangle:          *)
(* update_position and update_size with notify=False, update_label,    *)
(* show.                                                               *)
RectUpdated(m, id, x, y, width, height, label) ==
    [m EXCEPT !.rects[id] =
        Overlay_show(
          Overlay_update_label(
            Overlay_update_size(
              Overlay_update_position(@, x, y), width, height),
            label))]

(* c = [op, id, label, args, style, issuer].                           *)
RegisterRect_create(m, c) ==
    LET config == Get(m.rect_configs, c.id, EmptyDict)
        reads_config == DOMAIN c.args # RectFields \/ c.label = ""
        Field(k) == MergeField(c.args, config, DEFAULT_RECT, k)
        rect_label == MergeLabel(c.label, config, c.id)
    IN  IF reads_config /\ ~IsDict(config) THEN Raised(m)
        ELSE IF c.id \notin DOMAIN m.rects
        THEN Ran([m EXCEPT
                    !.rects = Put(@, c.id,
                        create_overlay(Field("x"), Field("y"), Field("width"),
                                       Field("height"), rect_label, c.style)),
                    !.overlay_registry = @ \cup {c.id}], <<>>)
        ELSE Ran(RectUpdated(m, c.id, Field("x"), Field("y"), Field("width"),
                             Field("height"), rect_label), <<>>)

RegisterPosition_create(m, c) ==
    LET config == Get(m.point_configs, c.id, EmptyDict)
        reads_config == DOMAIN c.args # PointFields \/ c.label = ""
        Field(k) == MergeField(c.args, config, DEFAULT_POINT, k)
        point_label == MergeLabel(c.label, config, c.id)
    IN  IF reads_config /\ ~IsDict(config) THEN Raised(m)
        ELSE IF c.id \notin DOMAIN m.points
        THEN Ran([m EXCEPT
                    !.points = Put(@, c.id,
                        create_point(Field("x"), Field("y"), point_label)),
                    !.point_registry = @ \cup {c.id}], <<>>)
        ELSE Ran([m EXCEPT
                    !.points[c.id] =
                        Point_show(
                          Point_update_label(
                            Point_update_position(@, Field("x"), Field("y")),
                            point_label))], <<>>)

Restrict(d, keys) == [k \in (DOMAIN d) \cap keys |-> d[k]]

(* A number of a document is an integer, or carries a fractional part: *)
(* whole + 1/2 is written Half(whole), above every coordinate in use.  *)
HalfBase == 1000 * (ScreenW + ScreenH)
Half(whole) == HalfBase + whole

(* int(v): the number truncated to an integer.                         *)
IntOf(v) == IF v >= HalfBase THEN v - HalfBase ELSE v

(* {k: int(v) for k, v in saved.items() if k in keys}                  *)
IntFields(saved, keys) == [k \in DOMAIN Restrict(saved, keys) |-> IntOf(saved[k])]

(* A read that prefers the persisted record to the live marker.        *)
GetRect_read_persisted(m, c) ==
    IF c.id \in DOMAIN m.rect_configs /\ IsDict(m.rect_configs[c.id])
    THEN Ran(m, <<IntFields(m.rect_configs[c.id], RectFields)>>)
    ELSE IF c.id \in DOMAIN m.rects
         THEN Ran(m, <<Overlay_get_position(m.rects[c.id])>>)
         ELSE Ran(m, <<>>)

GetRect_read(m, c) ==
    IF c.id \in DOMAIN m.rects
    THEN Ran(m, <<Overlay_get_position(m.rects[c.id])>>)
    ELSE IF c.id \in DOMAIN m.rect_configs
         THEN IF IsDict(m.rect_configs[c.id])
              THEN Ran(m, <<IntFields(m.rect_configs[c.id], RectFields)>>)
              ELSE Raised(m)
         ELSE Ran(m, <<>>)

GetPosition_read(m, c) ==
    IF c.id \in DOMAIN m.points
    THEN Ran(m, <<Point_get_position(m.points[c.id])>>)
    ELSE IF c.id \in DOMAIN m.point_configs
         THEN IF IsDict(m.point_configs[c.id])
              THEN Ran(m, <<IntFields(m.point_configs[c.id], PointFields)>>)
              ELSE Raised(m)
         ELSE Ran(m, <<>>)

(* Destroying a surface releases the pointer it held.                  *)
ReleaseGrab(m) ==
    IF m.grab = <<>> THEN m
    ELSE LET g == m.grab[1]
             shown == IF g.kind = "rect"
                      THEN g.id \in DOMAIN m.rects /\ m.rects[g.id].visible
                      ELSE g.id \in DOMAIN m.points /\ m.points[g.id].visible
         IN IF shown THEN m ELSE [m EXCEPT !.grab = <<>>]

(* A hideAll that leaves the points alone.                             *)
hide_rects_only(m) ==
    [m EXCEPT !.rects = [i \in DOMAIN m.rects |-> Overlay_hide(m.rects[i])]]

HideAll_hide(m) ==
    ReleaseGrab([m EXCEPT
        !.rects = [i \in DOMAIN m.rects |-> Overlay_hide(m.rects[i])],
        !.points = [i \in DOMAIN m.points |-> Point_hide(m.points[i])]])

ShowAll_show(m) ==
    [m EXCEPT
        !.rects = [i \in DOMAIN m.rects |-> Overlay_show(m.rects[i])],
        !.points = [i \in DOMAIN m.points |-> Point_show(m.points[i])]]

(* clear_all_overlays / clear_all_points: destroy() every registered   *)
(* marker (hide it, drop it from the registry), then clear the list.   *)
(* The registries are lists of the module: they hold the markers of    *)
(* every manager of the process.                                       *)
clear_all_overlays(m) ==
    [m EXCEPT
        !.rects = [i \in DOMAIN m.rects |->
                     IF i \in m.overlay_registry THEN Overlay_hide(m.rects[i])
                     ELSE m.rects[i]],
        !.other.rects = [i \in DOMAIN m.other.rects |->
                     IF i \in m.overlay_registry THEN Overlay_hide(m.other.rects[i])
                     ELSE m.other.rects[i]],
        !.overlay_registry = {}]

clear_all_points(m) ==
    [m EXCEPT
        !.points = [i \in DOMAIN m.points |->
                      IF i \in m.point_registry THEN Point_hide(m.points[i])
                      ELSE m.points[i]],
        !.other.points = [i \in DOMAIN m.other.points |->
                      IF i \in m.point_registry THEN Point_hide(m.other.points[i])
                      ELSE m.other.points[i]],
        !.point_registry = {}]

Destroy_destroy(m) ==
    LET cleared == clear_all_points(clear_all_overlays(m))
    IN ReleaseGrab([cleared EXCEPT !.rects = EmptyDict, !.points = EmptyDict])

(* Calling the func of a queue entry.                                  *)
RunCommand(m, c) ==
    CASE c.op = "registerRect" -> RegisterRect_create(m, c)
      [] c.op = "registerPosition" -> RegisterPosition_create(m, c)
      [] c.op = "getRect" -> GetRect_read(m, c)
      [] c.op = "getPosition" -> GetPosition_read(m, c)
      [] c.op = "hideAll" -> Ran(HideAll_hide(m), <<>>)
      [] c.op = "showAll" -> Ran(ShowAll_show(m), <<>>)
      [] c.op = "destroy" -> Ran(Destroy_destroy(m), <<>>)

(* ------------------------------------------------------------------ *)
(* __init__.py: the dispatcher                                        *)
(* ------------------------------------------------------------------ *)
NoFuture == [state |-> "none", value |-> <<>>, by |-> 0, seq |-> 0]
PendingFuture == [state |-> "pending", value |-> <<>>, by |-> 0, seq |-> 0]

(* Thread.is_alive(): started and not yet finished.                    *)
is_alive(th) == th.pc \notin {"new", "dead"}

TkThreadAlive == tk_thread # 0 /\ is_alive(threads[tk_thread])

(* A queue that hands out its newest entry first.                      *)
get_newest(q) == [item |-> q[Len(q)], rest |-> SubSeq(q, 1, Len(q) - 1)]

(* Queue.get_nowait(): the entry taken and the queue left.             *)
get_nowait(q) == [item |-> Head(q), rest |-> Tail(q)]

(* One result slot shared by every call.                               *)
SharedFuture(e) == 1

(* The Future a drained entry's outcome is written to.                 *)
EntryFuture(e) == e.future

(* A result() that does not wait.                                      *)
result_unawaited(f) == TRUE

(* Future.result(): blocks until the future is resolved.               *)
result_ready(f) == f.state # "pending"

(* A drain that lets the exception of a command end the thread.       *)
AfterCommandUncaught(raised) == IF raised THEN "dead" ELSE "drain"

(* Where _drain_queue goes after running one command.                  *)
AfterCommand(raised) == "drain"

(* History: the geometry the most recent mutation of each rectangle    *)
(* produced. A registration with all four arguments produces them; any *)
(* other one produces what the marker then holds.                      *)
Mutated(last, c, r) ==
    IF r.raised THEN last
    ELSE IF c.op = "registerRect"
         THEN Put(last, c.id,
                  IF DOMAIN c.args = RectFields THEN c.args
                  ELSE Overlay_get_position(r.m.rects[c.id]))
         ELSE IF c.op = "destroy" THEN EmptyDict
         ELSE last

SetManager(m) ==
    /\ rects' = m.rects
    /\ points' = m.points
    /\ rect_configs' = m.rect_configs
    /\ point_configs' = m.point_configs
    /\ file' = m.file
    /\ overlay_registry' = m.overlay_registry
    /\ point_registry' = m.point_registry
    /\ grab' = m.grab
    /\ other' = m.other
    /\ UNCHANGED <<disk, io>>

(* A call of a caller thread: the method, and its arguments.          *)

MakeCall(op, id, label, args, t) ==
    [op |-> op, id |-> id, label |-> label, args |-> args,
     style |-> DefaultStyle, issuer |-> t]

InQueue(t) == \E i \in 1..Len(tk_queue) : tk_queue[i].future = t

NoCall(t) == MakeCall("none", "", "", EmptyDict, t)

(* What a caller's finished call leaves behind: nothing.               *)
Returned(t) ==
    /\ call' = [call EXCEPT ![t] = NoCall(t)]
    /\ futures' = [futures EXCEPT ![t] = NoFuture]

ClearFlags(h, t) ==
    [h EXCEPT !.executed[t] = FALSE, !.writes[t] = 0,
              !.afterDestroy[t] = FALSE, !.qAtFirstDestroy[t] = FALSE]

(* A caller thread enters a public method, which goes straight to      *)
(* _call_in_tk_thread and _ensure_tk_thread, line 228: the liveness    *)
(* test of the worker thread.                                          *)
BeginCall(t, c) ==
    /\ pc[t] = "idle"
    /\ ncalls < MaxCalls
    /\ call' = [call EXCEPT ![t] = c]
    /\ hist' = [hist EXCEPT
          !.afterDestroy[t] = hist.destroyReturned,
          !.destroyCalled = @ \/ c.op = "destroy",
          !.qAtFirstDestroy = [u \in Callers |->
              hist.qAtFirstDestroy[u]
              \/ (c.op = "destroy" /\ ~hist.destroyCalled /\ InQueue(u))]]
    /\ pc' = [pc EXCEPT ![t] = IF TkThreadAlive THEN "put" ELSE "mkthread"]
    /\ ncalls' = ncalls + 1
    /\ UNCHANGED dispatcherVars
    /\ UNCHANGED <<managerVars, grab>>

(* line 231: self._tk_thread = threading.Thread(...)                   *)
EnsureCreate(t) ==
    /\ pc[t] = "mkthread"
    /\ threads' = Append(threads, [pc |-> "new", cur |-> <<>>])
    /\ tk_thread' = Len(threads) + 1
    /\ pc' = [pc EXCEPT ![t] = "startthread"]
    /\ UNCHANGED <<tk_queue, stop_event, root_ready, futures>>
    /\ UNCHANGED <<call, ncalls, managerVars, grab, hist>>

(* lines 232-233: self._tk_thread.start(), which raises RuntimeError   *)
(* for a thread that was started before, then _root_ready.wait(),      *)
(* which returns at once because the event is set since construction.  *)
EnsureStart(t) ==
    /\ pc[t] = "startthread"
    /\ IF threads[tk_thread].pc = "new"
       THEN /\ root_ready
            /\ threads' = [threads EXCEPT ![tk_thread].pc = "start"]
            /\ pc' = [pc EXCEPT ![t] = "put"]
            /\ hist' = hist
            /\ UNCHANGED <<call, futures>>
       ELSE /\ threads' = threads
            /\ pc' = [pc EXCEPT ![t] = "idle"]
            /\ hist' = ClearFlags(hist, t)
            /\ Returned(t)
    /\ UNCHANGED <<tk_thread, tk_queue, stop_event, root_ready>>
    /\ UNCHANGED <<ncalls, managerVars, grab>>

(* _call_in_tk_thread, lines 273-274: a new Future, queued with func.  *)
(* The history notes whether the worker was in the middle of a drain,  *)
(* running a command, when the entry was queued.                       *)
Submit(t) ==
    /\ pc[t] = "put"
    /\ futures' = [futures EXCEPT ![t] = PendingFuture]
    /\ tk_queue' = Append(tk_queue,
          [future |-> t, func |-> call[t], seq |-> hist.nextSeq])
    /\ hist' = [hist EXCEPT
          !.nextSeq = @ + 1,
          !.late[t] = \E w \in DOMAIN threads : threads[w].pc = "exec"]
    /\ pc' = [pc EXCEPT ![t] = "result"]
    /\ UNCHANGED <<tk_thread, threads, stop_event, root_ready>>
    /\ UNCHANGED <<call, ncalls, managerVars, grab>>

(* line 275: future.result() returns the value or raises what the      *)
(* future holds. destroy() goes on when it returned, to line 220:      *)
(* self._stop_event.set().                                             *)
TakeResult(t) ==
    /\ pc[t] = "result"
    /\ result_ready(futures[t])
    /\ IF call[t].op = "destroy" /\ futures[t].state \notin {"raised", "stopped"}
       THEN /\ pc' = [pc EXCEPT ![t] = "join"]
            /\ stop_event' = TRUE
            /\ UNCHANGED <<call, futures, hist>>
       ELSE /\ pc' = [pc EXCEPT ![t] = "idle"]
            /\ stop_event' = stop_event
            /\ hist' = ClearFlags(hist, t)
            /\ Returned(t)
    /\ UNCHANGED <<tk_thread, threads, tk_queue, root_ready>>
    /\ UNCHANGED <<ncalls, managerVars, grab>>

(* destroy, lines 221-222: join(timeout=1) returns once the thread has *)
(* exited (or at once when it is not alive) ...                        *)
DestroyJoinExited(t) ==
    /\ pc[t] = "join"
    /\ ~TkThreadAlive
    /\ pc' = [pc EXCEPT ![t] = "idle"]
    /\ hist' = [ClearFlags(hist, t) EXCEPT !.destroyReturned = TRUE]
    /\ Returned(t)
    /\ UNCHANGED <<tk_thread, threads, tk_queue, stop_event, root_ready>>
    /\ UNCHANGED <<ncalls, managerVars, grab>>

(* ... or when the timeout elapses with the thread still alive.        *)
DestroyJoinTimeout(t) ==
    /\ pc[t] = "join"
    /\ TkThreadAlive
    /\ pc' = [pc EXCEPT ![t] = "idle"]
    /\ hist' = [ClearFlags(hist, t) EXCEPT !.destroyReturned = TRUE]
    /\ Returned(t)
    /\ UNCHANGED <<tk_thread, threads, tk_queue, stop_event, root_ready>>
    /\ UNCHANGED <<ncalls, managerVars, grab>>

(* ------------------------------------------------------------------ *)
(* __init__.py: the worker thread, _run_tk_loop and _drain_queue      *)
(* ------------------------------------------------------------------ *)
ThreadIds == 1..(MaxCalls + 1)
Workers == {w \in ThreadIds : w <= Len(threads)}

(* A loop that goes back to the events without draining.               *)
LoopWithoutDrain == "update"

(* A loop that ends without having been told to stop.                 *)
LoopTestEnded == "final"

(* line 240: while not self._stop_event.is_set()                       *)
LoopTest == IF stop_event THEN "final" ELSE "drain"

(* lines 236-240: the Tk root, _root_ready.set(), and the first test   *)
(* of the loop.                                                        *)
WorkerStart(w) ==
    /\ w \in Workers
    /\ threads[w].pc = "start"
    /\ root_ready' = TRUE
    /\ threads' = [threads EXCEPT ![w].pc = LoopTest]
    /\ UNCHANGED <<tk_thread, tk_queue, stop_event, futures>>
    /\ UNCHANGED <<callerVars, managerVars, grab, hist>>

(* _drain_queue(), lines 257-260: take the next entry, or leave the    *)
(* drain when the queue is empty.                                      *)
WorkerGet(w) ==
    /\ w \in Workers
    /\ threads[w].pc = "drain"
    /\ IF tk_queue = <<>>
       THEN /\ threads' = [threads EXCEPT ![w].pc = "update"]
            /\ tk_queue' = tk_queue
       ELSE /\ threads' = [threads EXCEPT
                  ![w] = [pc |-> "exec", cur |-> <<get_nowait(tk_queue).item>>]]
            /\ tk_queue' = get_nowait(tk_queue).rest
    /\ UNCHANGED <<tk_thread, stop_event, root_ready, futures>>
    /\ UNCHANGED <<callerVars, managerVars, grab, hist>>

(* lines 264-269: run the command and resolve its future with the      *)
(* result or with the exception it raised.                             *)
WorkerExec(w) ==
    /\ w \in Workers
    /\ threads[w].pc = "exec"
    /\ LET e == threads[w].cur[1]
           r == RunCommand(Manager, e.func)
           f == EntryFuture(e)
       IN /\ SetManager(r.m)
          /\ futures' = [futures EXCEPT ![f] =
                [state |-> IF r.raised THEN "raised" ELSE "ok",
                 value |-> r.value, by |-> e.func.issuer, seq |-> e.seq]]
          /\ threads' = [threads EXCEPT
                ![w] = [pc |-> AfterCommand(r.raised), cur |-> <<>>]]
          /\ hist' = [hist EXCEPT !.executed[e.func.issuer] = TRUE,
                                  !.late[f] = FALSE,
                                  !.lastExec = e.seq,
                                  !.writes[f] = @ + 1,
                                  !.lastRect = Mutated(@, e.func, r)]
    /\ UNCHANGED <<tk_thread, tk_queue, stop_event, root_ready>>
    /\ UNCHANGED callerVars

(* lines 243-247 and 240: the toolkit has handled its pending events;  *)
(* the sleep, then the loop's test again.                              *)
WorkerUpdateDone(w) ==
    /\ w \in Workers
    /\ threads[w].pc = "update"
    /\ threads' = [threads EXCEPT ![w].pc = LoopTest]
    /\ UNCHANGED <<tk_thread, tk_queue, stop_event, root_ready, futures>>
    /\ UNCHANGED <<callerVars, managerVars, grab, hist>>

(* line 249, _drain_queue(set_exception=True): every entry left gets   *)
(* RuntimeError("Tk loop already stopped").                            *)
WorkerFinalDrain(w) ==
    /\ w \in Workers
    /\ threads[w].pc = "final"
    /\ IF tk_queue = <<>>
       THEN /\ threads' = [threads EXCEPT ![w].pc = "teardown"]
            /\ UNCHANGED <<tk_queue, futures, hist>>
       ELSE LET e == get_nowait(tk_queue).item
                f == EntryFuture(e)
            IN /\ tk_queue' = get_nowait(tk_queue).rest
               /\ futures' = [futures EXCEPT ![f] =
                     [state |-> "stopped", value |-> <<>>, by |-> e.func.issuer,
                      seq |-> e.seq]]
               /\ hist' = [hist EXCEPT !.writes[f] = @ + 1]
               /\ threads' = threads
    /\ UNCHANGED <<tk_thread, stop_event, root_ready>>
    /\ UNCHANGED <<callerVars, managerVars, grab>>

(* lines 250-253: self._root.destroy(), and the thread ends.           *)
WorkerExit(w) ==
    /\ w \in Workers
    /\ threads[w].pc = "teardown"
    /\ threads' = [threads EXCEPT ![w].pc = "dead"]
    /\ UNCHANGED <<tk_thread, tk_queue, stop_event, root_ready, futures>>
    /\ UNCHANGED <<callerVars, managerVars, grab, hist>>


(* ------------------------------------------------------------------ *)
(* Pointer events, delivered by root.update() on the worker thread    *)
(* ------------------------------------------------------------------ *)
PointerEvent(x_root, y_root, wx, wy) ==
    [x |-> x_root - wx, y |-> y_root - wy, x_root |-> x_root, y_root |-> y_root]

(* <Button-1> on a rectangle's surface at the surface point (ex, ey):  *)
(* the handle item's binding (_on_resize_press) when the point is on   *)
(* the handle, and the canvas binding (_on_mouse_press).               *)
RectPressed(m, id, ex, ey) ==
    LET o == m.rects[id]
        e == PointerEvent(o.x + ex, o.y + ey, o.x, o.y)
        on_handle == o.resizable /\ is_in_resize_handle(o, ex, ey)
        o1 == IF on_handle THEN Overlay_on_resize_press(o, e) ELSE o
    IN [m EXCEPT !.rects[id] = Overlay_on_mouse_press(o1, e),
                 !.grab = <<[kind |-> "rect", id |-> id,
                             item |-> IF on_handle THEN "handle" ELSE "surface"]>>]

PointPressed(m, id, ex, ey) ==
    LET p == m.points[id]
        wx == p.x - (p.window_size \div 2)
        wy == p.y - (p.window_size \div 2)
    IN [m EXCEPT !.points[id] = Point_on_mouse_press(p, PointerEvent(wx + ex, wy + ey, wx, wy)),
                 !.grab = <<[kind |-> "point", id |-> id, item |-> "surface"]>>]

(* A move that ends with _notify_callback.                             *)
PointerMovedNotifying(m, x_root, y_root) ==
    LET g == m.grab[1]
    IN IF g.kind = "rect"
       THEN LET o == Overlay_on_mouse_drag_global(m.rects[g.id],
                         PointerEvent(x_root, y_root, m.rects[g.id].x, m.rects[g.id].y))
            IN RectCallback([m EXCEPT !.rects[g.id] = o], g.id, o.cb_label,
                            o.x, o.y, o.width, o.height)
       ELSE LET q == Point_on_mouse_drag(m.points[g.id],
                         PointerEvent(x_root, y_root, m.points[g.id].x, m.points[g.id].y))
            IN PointCallback([m EXCEPT !.points[g.id] = q], g.id, q.cb_label, q.x, q.y)

(* <B1-Motion> to the surface that holds the pointer.                  *)
PointerMoved(m, x_root, y_root) ==
    LET g == m.grab[1]
    IN IF g.kind = "rect"
       THEN [m EXCEPT !.rects[g.id] =
               Overlay_on_mouse_drag_global(@, PointerEvent(x_root, y_root, @.x, @.y))]
       ELSE [m EXCEPT !.points[g.id] =
               Point_on_mouse_drag(@, PointerEvent(x_root, y_root, @.x, @.y))]

(* <ButtonRelease-1>: the release handler, and through                 *)
(* _notify_callback the callback given at registration.                *)
(* The handle item's binding (_on_resize_release) runs first when the  *)
(* press was on the handle, then the canvas binding                    *)
(* (_on_mouse_release_global) in every case: the marker after them,    *)
(* and how many times _notify_callback was called.                     *)
Overlay_on_resize_release(o) == Overlay_on_mouse_release_global(o)

RectReleaseHandlers(o, item) ==
    LET r1 == IF item = "handle" THEN Overlay_on_resize_release(o)
              ELSE [o |-> o, notify |-> FALSE]
        r2 == Overlay_on_mouse_release_global(r1.o)
    IN [o |-> r2.o,
        notified |-> (IF r1.notify THEN 1 ELSE 0) + (IF r2.notify THEN 1 ELSE 0)]

RECURSIVE RectNotified(_, _, _, _)
RectNotified(m, id, o, times) ==
    IF times = 0 THEN m
    ELSE RectNotified(RectCallback(m, id, o.cb_label, o.x, o.y, o.width, o.height),
                      id, o, times - 1)

RectReleased(m, id) ==
    LET r == RectReleaseHandlers(m.rects[id], m.grab[1].item)
        m1 == [m EXCEPT !.rects[id] = r.o, !.grab = <<>>]
    IN RectNotified(m1, id, r.o, r.notified)

PointReleased(m, id) ==
    LET r == Point_on_mouse_release(m.points[id])
        m1 == [m EXCEPT !.points[id] = r.o, !.grab = <<>>]
    IN IF r.notify
       THEN PointCallback(m1, id, r.o.cb_label, r.o.x, r.o.y)
       ELSE m1

PointerReleased(m) ==
    IF m.grab[1].kind = "rect" THEN RectReleased(m, m.grab[1].id)
    ELSE PointReleased(m, m.grab[1].id)

(* The surface points pressed, and the screen points moved to.         *)
RectPressPoints(o) ==
    {<<0, 0>>, <<o.width - ResizeHandleSize, o.height - ResizeHandleSize>>}

(* The pointer is on the screen.                                       *)
OnScreen(x_root, y_root) ==
    /\ 0 <= x_root /\ x_root < ScreenW
    /\ 0 <= y_root /\ y_root < ScreenH
PointPressPoints(p) == {<<p.window_size \div 2, p.window_size \div 2>>}
MoveTargets == {<<50, 60>>}

Updating(w) == w \in Workers /\ threads[w].pc = "update"

RectPress(w) ==
    /\ Updating(w)
    /\ grab = <<>>
    /\ \E id \in DOMAIN rects :
        /\ rects[id].visible
        /\ \E pt \in RectPressPoints(rects[id]) :
              /\ OnScreen(rects[id].x + pt[1], rects[id].y + pt[2])
              /\ SetManager(RectPressed(Manager, id, pt[1], pt[2]))
    /\ UNCHANGED <<dispatcherVars, callerVars, hist>>

PointPress(w) ==
    /\ Updating(w)
    /\ grab = <<>>
    /\ \E id \in DOMAIN points :
        /\ points[id].visible
        /\ \E pt \in PointPressPoints(points[id]) :
              /\ OnScreen(points[id].x - (points[id].window_size \div 2) + pt[1],
                          points[id].y - (points[id].window_size \div 2) + pt[2])
              /\ SetManager(PointPressed(Manager, id, pt[1], pt[2]))
    /\ UNCHANGED <<dispatcherVars, callerVars, hist>>

PointerMoveTo(w, targets) ==
    /\ Updating(w)
    /\ grab # <<>>
    /\ \E t \in targets :
         LET m == PointerMoved(Manager, t[1], t[2])
         IN /\ SetManager(m)
            /\ hist' = [hist EXCEPT !.lastRect =
                  IF grab[1].kind = "rect"
                  THEN Put(@, grab[1].id, Overlay_get_position(m.rects[grab[1].id]))
                  ELSE @]
    /\ UNCHANGED <<dispatcherVars, callerVars>>

PointerMove(w) == PointerMoveTo(w, MoveTargets)

PointerRelease(w) ==
    /\ Updating(w)
    /\ grab # <<>>
    /\ SetManager(PointerReleased(Manager))
    /\ UNCHANGED <<dispatcherVars, callerVars, hist>>

(* ------------------------------------------------------------------ *)
(* The specification                                                  *)
(* ------------------------------------------------------------------ *)
(* overlays.json as the constructor finds it: holding a rectangle      *)
(* below the minimum size and a point that is no object, or absent.    *)
StoredFile ==
    <<[rects |-> [r1 |-> [x |-> 5, y |-> 5, width |-> 30, height |-> 30, label |-> "old"]],
       points |-> [p1 |-> NotADict]]>>
NoFile == <<>>

(* _load_all_configs on a document whose namespaces are objects.       *)
LoadedConfig(f) ==
    IF f = <<>> THEN [rects |-> EmptyDict, points |-> EmptyDict] ELSE f[1]

(* The state once __init__ has returned and the worker, started by the *)
(* first call, is at the place at in its loop.                         *)
(* The markers another manager of the process holds: none, or a       *)
(* rectangle and a point it has registered.                            *)
NoOther == [rects |-> EmptyDict, points |-> EmptyDict]
OtherManager ==
    [rects |-> [b1 |-> create_overlay(DEFAULT_RECT.x, DEFAULT_RECT.y,
                                      DEFAULT_RECT.width, DEFAULT_RECT.height,
                                      "b1", DefaultStyle)],
     points |-> [b2 |-> create_point(DEFAULT_POINT.x, DEFAULT_POINT.y, "b2")]]

StartedWith(at, others) ==
    /\ tk_thread = 1
    /\ threads = <<[pc |-> at, cur |-> <<>>]>>
    /\ tk_queue = <<>>
    /\ stop_event = FALSE
    /\ root_ready = TRUE
    /\ futures = [t \in Callers |-> NoFuture]
    /\ pc = [t \in Callers |-> "idle"]
    /\ call = [t \in Callers |-> NoCall(t)]
    /\ ncalls = 0
    /\ rects = EmptyDict
    /\ points = EmptyDict
    /\ other = others
    /\ overlay_registry = DOMAIN others.rects
    /\ point_registry = DOMAIN others.points
    /\ grab = <<>>
    /\ hist = [nextSeq |-> 1, lastExec |-> 0,
               lastRect |-> EmptyDict,
               destroyCalled |-> FALSE, destroyReturned |-> FALSE,
               executed |-> [t \in Callers |-> FALSE],
               late |-> [t \in Callers |-> FALSE],
               writes |-> [t \in Callers |-> 0],
               afterDestroy |-> [t \in Callers |-> FALSE],
               qAtFirstDestroy |-> [t \in Callers |-> FALSE]]

StartedAt(at) == StartedWith(at, NoOther)

(* The same with the document the constructor loaded; the files of    *)
(* the directory are followed as texts only where the store is studied.*)
ConstructedAt(files, at) ==
    /\ StartedAt(at)
    /\ file \in files
    /\ rect_configs = LoadedConfig(file).rects
    /\ point_configs = LoadedConfig(file).points
    /\ disk = EmptyDict
    /\ io = [step |-> "idle"]

Constructed(files) == ConstructedAt(files, "drain")

(* The calls made where starting and stopping the dispatcher is        *)
(* studied: a registration and destroy().                              *)
DispatchCalls(t) ==
    {MakeCall("registerRect", "r1", "", EmptyDict, t),
     MakeCall("destroy", "", "", EmptyDict, t)}

Init == Constructed({StoredFile})

CallerStep(t) ==
    \/ \E c \in DispatchCalls(t) : BeginCall(t, c)
    \/ EnsureCreate(t)
    \/ EnsureStart(t)
    \/ Submit(t)
    \/ TakeResult(t)
    \/ DestroyJoinExited(t)

WorkerStep(w) ==
    \/ WorkerStart(w)
    \/ WorkerGet(w)
    \/ WorkerExec(w)
    \/ WorkerUpdateDone(w)
    \/ WorkerFinalDrain(w)
    \/ WorkerExit(w)

UiStep(w) ==
    \/ RectPress(w)
    \/ PointPress(w)
    \/ PointerMove(w)
    \/ PointerRelease(w)

(* The runs in which no join of destroy() times out: the worker exits  *)
(* within the second join() gives it.                                  *)
NextJoined ==
    \/ \E t \in Callers : CallerStep(t)
    \/ \E w \in ThreadIds : WorkerStep(w)

SpecJoined == Init /\ [][NextJoined]_vars

(* All runs.                                                           *)
Next ==
    \/ NextJoined
    \/ \E t \in Callers : DestroyJoinTimeout(t)

Spec == Init /\ [][Next]_vars

(* Several caller threads on a running dispatcher that nobody stops:   *)
(* a registration, and a read that raises on a persisted record that   *)
(* is no object.                                                       *)
RunningCalls(t) ==
    {MakeCall("registerRect", "r1", "", EmptyDict, t),
     MakeCall("getPosition", "p1", "", EmptyDict, t)}

NextRunning ==
    \/ \E t \in Callers : \E c \in RunningCalls(t) : BeginCall(t, c)
    \/ \E t \in Callers : Submit(t)
    \/ \E t \in Callers : TakeResult(t)
    \/ \E w \in ThreadIds : WorkerGet(w)
    \/ \E w \in ThreadIds : WorkerExec(w)
    \/ \E w \in ThreadIds : WorkerUpdateDone(w)

SpecRunning == Init /\ [][NextRunning]_vars

(* One caller thread on a running dispatcher, with the pointer at      *)
(* work: registrations, getRect, hideAll, and the events that          *)
(* root.update() delivers.                                             *)
UiCalls(t) ==
    {MakeCall("registerRect", "r1", "L", [x |-> 10, y |-> 20, width |-> 200, height |-> 100], t),
     MakeCall("registerRect", "r1", "", EmptyDict, t),
     MakeCall("registerPosition", "p1", "L", [x |-> 100, y |-> 100], t),
     MakeCall("getRect", "r1", "", EmptyDict, t),
     MakeCall("hideAll", "", "", EmptyDict, t)}

InitUi == Constructed({StoredFile})

NextUi ==
    \/ \E c \in UiCalls(1) : BeginCall(1, c)
    \/ Submit(1)
    \/ TakeResult(1)
    \/ \E w \in ThreadIds : WorkerGet(w)
    \/ \E w \in ThreadIds : WorkerExec(w)
    \/ \E w \in ThreadIds : WorkerUpdateDone(w)
    \/ \E w \in ThreadIds : UiStep(w)

SpecUi == InitUi /\ [][NextUi]_vars

(* ------------------------------------------------------------------ *)
(* Properties of the dispatcher (Spec)                                *)
(* ------------------------------------------------------------------ *)
Resolved == {"ok", "raised", "stopped"}

(* Caller t waits in future.result() and nothing in progress will ever *)
(* resolve its future: no worker thread is alive, and every other      *)
(* caller is outside the manager or waiting in the same way.           *)
BlockedForever(t) ==
    /\ pc[t] = "result"
    /\ futures[t].state = "pending"
    /\ \A w \in Workers : ~is_alive(threads[w])
    /\ \A u \in Callers :
          \/ pc[u] = "idle"
          \/ pc[u] = "result" /\ futures[u].state = "pending"

(* C1: whatever the interleaving of destroy() with the calls of other  *)
(* threads, no caller is left waiting on a future that nothing will    *)
(* resolve.                                                            *)
C1_NoCallerBlockedForever == \A t \in Callers : ~BlockedForever(t)

(* C2: a command that is in the queue when destroy() is invoked (here: *)
(* invoked for the first time) is resolved with the 'stopped' failure, *)
(* never with the outcome of having run.                               *)
C2_QueuedAtDestroyIsStopped ==
    \A u \in Callers :
        hist.qAtFirstDestroy[u] => futures[u].state \in {"pending", "stopped"}

(* C2, as the dispatcher does it: a command that is in the queue when  *)
(* destroy() is first invoked runs ahead of the teardown; its caller   *)
(* gets the outcome of the run, has it before the stop signal is set,  *)
(* and does not hang.                                                  *)
C2_QueuedAtFirstDestroyRuns ==
    \A u \in Callers :
        hist.qAtFirstDestroy[u] =>
            /\ futures[u].state \in {"pending", "ok", "raised"}
            /\ stop_event => futures[u].state \in {"ok", "raised"}
            /\ ~BlockedForever(u)

C2_Witness ==
    \E u \in Callers :
        /\ hist.qAtFirstDestroy[u]
        /\ pc[u] = "result"
        /\ futures[u].state \in {"ok", "raised"}
        /\ stop_event

(* C3: a call begun after a destroy() has returned is never executed,  *)
(* does not hang, and gets the 'stopped' failure.                      *)
C3_LateCallIsStopped ==
    \A t \in Callers :
        hist.afterDestroy[t] =>
            /\ ~hist.executed[t]
            /\ futures[t].state \in {"none", "pending", "stopped"}
            /\ ~BlockedForever(t)

(* C4: commands run in the order they were queued: what waits in the   *)
(* queue or in a worker's hand was queued after everything that has    *)
(* run, a worker holds nothing queued later than a waiting entry, and  *)
(* the queue is in the order of queueing.                              *)
C4_StrictFifo ==
    /\ \A i \in 1..Len(tk_queue) : tk_queue[i].seq > hist.lastExec
    /\ \A i, j \in 1..Len(tk_queue) : i < j => tk_queue[i].seq < tk_queue[j].seq
    /\ \A w \in Workers :
          threads[w].cur # <<>> =>
              /\ threads[w].cur[1].seq > hist.lastExec
              /\ \A i \in 1..Len(tk_queue) : tk_queue[i].seq > threads[w].cur[1].seq

C4_Witness ==
    /\ hist.lastExec >= 1
    /\ \E w \in Workers :
          /\ threads[w].pc = "exec"
          /\ \E i \in 1..Len(tk_queue) :
                tk_queue[i].future # threads[w].cur[1].future

(* C6: a resolved future holds the outcome of the command its own      *)
(* caller submitted, and was written once; a future not yet resolved   *)
(* was never written.                                                  *)
C6_OneToOnePairing ==
    \A t \in Callers :
        /\ futures[t].state \in Resolved =>
              futures[t].by = t /\ hist.writes[t] = 1
        /\ futures[t].state \notin Resolved => hist.writes[t] = 0

C6_Witness ==
    \E t, u \in Callers :
        /\ t # u
        /\ pc[t] = "result" /\ futures[t].state \in Resolved
        /\ pc[u] = "result" /\ futures[u].state \in Resolved
        /\ call[t].op # call[u].op

(* C8: at most one worker thread is alive at any time.                 *)
C8_AtMostOneWorkerAlive ==
    Cardinality({w \in Workers : is_alive(threads[w])}) <= 1

(* C9: when destroy() returns, both id maps and both registries are    *)
(* empty and the stop signal is set.                                   *)
C9_DestroyLeavesNothing ==
    [][\A t \in Callers :
          (pc[t] = "join" /\ pc'[t] = "idle") =>
              /\ rects' = EmptyDict /\ points' = EmptyDict
              /\ overlay_registry' = {} /\ point_registry' = {}
              /\ stop_event']_vars

(* ------------------------------------------------------------------ *)
(* Properties of a running dispatcher (SpecRunning)                   *)
(* ------------------------------------------------------------------ *)
(* C7: a future holds a failure exactly when its caller's own command  *)
(* raises, and a worker leaves its loop only once the stop signal is   *)
(* set: a raising command does not end it.                             *)
C7_RaiseIsContained ==
    /\ \A t \in Callers :
          futures[t].state \in {"ok", "raised"} =>
              ((futures[t].state = "raised") <=> RunCommand(Manager, call[t]).raised)
    /\ \A w \in Workers :
          threads[w].pc \in {"final", "teardown", "dead"} => stop_event

C7_Witness ==
    \E t, u \in Callers :
        /\ pc[t] = "result" /\ futures[t].state = "raised"
        /\ pc[u] = "result" /\ futures[u].state = "ok"
        /\ futures[u].seq > futures[t].seq
        /\ \E w \in Workers : threads[w].pc \in {"drain", "update"}

(* ------------------------------------------------------------------ *)
(* Properties of one caller and the pointer (SpecUi)                  *)
(* ------------------------------------------------------------------ *)
(* C5: a call returns only once its command has run on the worker, and *)
(* a getRect of a live rectangle is resolved with the geometry that    *)
(* the most recent mutation of that id produced.                       *)
C5_ReadsSeeLastMutation ==
    [][\A t \in Callers :
          /\ (pc[t] = "result" /\ pc'[t] # "result") =>
                hist.executed[t] /\ futures[t].state \in {"ok", "raised"}
          /\ (/\ futures[t].state = "pending"
              /\ futures'[t].state # "pending"
              /\ call[t].op = "getRect"
              /\ call[t].id \in DOMAIN hist.lastRect) =>
                /\ futures'[t].state = "ok"
                /\ futures'[t].value = <<hist.lastRect[call[t].id]>>]_vars

C5_Witness ==
    /\ pc[1] = "result"
    /\ call[1].op = "getRect"
    /\ hist.executed[1]
    /\ futures[1].state = "ok"
    /\ futures[1].value = <<[x |-> 50, y |-> 60, width |-> 200, height |-> 100]>>

SavedIds == {"s1"}

(* overlays.json holding records with missing fields, an empty label,  *)
(* and numbers with a fractional part.                                 *)
SavedFile ==
    <<[rects |-> [r1 |-> [x |-> 7, label |-> ""],
                  s1 |-> [x |-> Half(5), y |-> 6, width |-> 70,
                          height |-> Half(80), label |-> "s", alpha |-> 1]],
       points |-> [p1 |-> [y |-> 50, label |-> "pt"],
                   s1 |-> [x |-> 40, y |-> Half(9)]]]>>

MarkerFiles == {NoFile, StoredFile, SavedFile}

(* Registrations with every, some and no explicit argument: a size     *)
(* below the minimum, a top-left near the screen's far corner, a size  *)
(* above the screen's.                                                 *)
RegisterRectCalls ==
    {MakeCall("registerRect", "r1", "L", [x |-> 10, y |-> 20, width |-> 200, height |-> 100], 1),
     MakeCall("registerRect", "r1", "", EmptyDict, 1),
     MakeCall("registerRect", "r1", "", [width |-> 30, height |-> 30], 1),
     MakeCall("registerRect", "r1", "", [x |-> ScreenW - 20, y |-> ScreenH - 20], 1),
     MakeCall("registerRect", "r1", "L", [x |-> 10, y |-> 10, width |-> ScreenW + 50,
                                          height |-> ScreenH + 50], 1)}

RegisterPositionCalls ==
    {MakeCall("registerPosition", "p1", "", EmptyDict, 1),
     MakeCall("registerPosition", "p1", "L", [x |-> 100], 1)}

HideShowCalls ==
    {MakeCall("hideAll", "", "", EmptyDict, 1),
     MakeCall("showAll", "", "", EmptyDict, 1)}

RegisterCalls == RegisterRectCalls \cup RegisterPositionCalls \cup HideShowCalls

(* The calls made while the pointer is at work: a rectangle of the     *)
(* minimum size with its handle at the screen's far corner, one inside *)
(* the screen, one larger than the screen, a point; the caller keeps   *)
(* to one kind of marker.                                              *)
NearCorner == MinSize - (ResizeHandleSize \div 2)

MarkerCalls ==
    {MakeCall("registerRect", "r1", "", [x |-> ScreenW - NearCorner, y |-> ScreenH - NearCorner,
                                          width |-> MinSize, height |-> MinSize], 1)}
    \cup {c \in RegisterRectCalls : DOMAIN c.args = RectFields}
    \cup RegisterPositionCalls
    \cup HideShowCalls

OneKind(c) ==
    /\ c.op = "registerRect" => DOMAIN points = {}
    /\ c.op = "registerPosition" => DOMAIN rects = {}

(* The screen points the pointer is moved to: inside the screen and    *)
(* its two extreme corners.                                            *)
MarkerMoveTargets == {<<50, 60>>, <<0, 0>>, <<ScreenW - 1, ScreenH - 1>>}

(* One public method called by the only caller and run to its end by   *)
(* the worker between two root.update() calls: _call_in_tk_thread,     *)
(* _drain_queue and future.result() with nothing else in the queue.    *)
CallCompleted(w, c) ==
    /\ Updating(w)
    /\ tk_queue = <<>>
    /\ pc[c.issuer] = "idle"
    /\ ncalls < MaxCalls
    /\ ncalls' = ncalls + 1
    /\ LET r == RunCommand(Manager, c)
       IN /\ SetManager(r.m)
          /\ hist' = [hist EXCEPT !.lastRect = Mutated(@, c, r)]
    /\ UNCHANGED <<dispatcherVars, pc, call>>

(* The manager constructed on one of the files, its worker started and *)
(* waiting in root.update(); the registrations alone.                  *)
InitRegister == ConstructedAt(MarkerFiles, "update")

NextRegister ==
    \E w \in ThreadIds : \E c \in RegisterCalls : CallCompleted(w, c)

SpecRegister == InitRegister /\ [][NextRegister]_vars

MarkerCall(w, c) == OneKind(c) /\ CallCompleted(w, c)

(* The manager constructed with no file, under calls and the pointer.  *)
InitMarker == ConstructedAt({NoFile}, "update")

NextMarker ==
    \/ \E w \in ThreadIds : \E c \in MarkerCalls : MarkerCall(w, c)
    \/ \E w \in ThreadIds : RectPress(w)
    \/ \E w \in ThreadIds : PointPress(w)
    \/ \E w \in ThreadIds : PointerMoveTo(w, MarkerMoveTargets)
    \/ \E w \in ThreadIds : PointerRelease(w)

SpecMarker == InitMarker /\ [][NextMarker]_vars

(* ------------------------------------------------------------------ *)
(* Claims checked on SpecRegister                                     *)
(* ------------------------------------------------------------------ *)
ReadIds == RectIds \cup PointIds \cup SavedIds \cup {"none"}

(* The geometry fields of a persisted record, each an integer or the   *)
(* whole part of a number with a fraction.                             *)
IsGeometryOf(value, rec, keys) ==
    /\ DOMAIN value = DOMAIN rec \cap keys
    /\ \A k \in DOMAIN value : rec[k] \in {value[k], Half(value[k])}

(* C11: getRect(id) and getPosition(id) return the geometry of the     *)
(* live marker of the id when there is one, shown or hidden; else the  *)
(* geometry fields of the id's record in the document, which is the    *)
(* document of the file; else None. They change nothing.               *)
C11_GettersFallThrough ==
    /\ file # <<>> => /\ rect_configs = file[1].rects
                      /\ point_configs = file[1].points
    /\ \A id \in ReadIds :
        LET r == GetRect_read(Manager, MakeCall("getRect", id, "", EmptyDict, 1))
            p == GetPosition_read(Manager, MakeCall("getPosition", id, "", EmptyDict, 1))
        IN /\ r.m = Manager /\ p.m = Manager
           /\ IF id \in DOMAIN rects
              THEN /\ ~r.raised
                   /\ r.value = <<[x |-> rects[id].x, y |-> rects[id].y,
                                   width |-> rects[id].width,
                                   height |-> rects[id].height]>>
              ELSE IF id \in DOMAIN rect_configs
                   THEN IsDict(rect_configs[id]) =>
                          /\ ~r.raised
                          /\ Len(r.value) = 1
                          /\ IsGeometryOf(r.value[1], rect_configs[id], RectFields)
                   ELSE ~r.raised /\ r.value = <<>>
           /\ IF id \in DOMAIN points
              THEN /\ ~p.raised
                   /\ p.value = <<[x |-> points[id].x, y |-> points[id].y]>>
              ELSE IF id \in DOMAIN point_configs
                   THEN IsDict(point_configs[id]) =>
                          /\ ~p.raised
                          /\ Len(p.value) = 1
                          /\ IsGeometryOf(p.value[1], point_configs[id], PointFields)
                   ELSE ~p.raised /\ p.value = <<>>

(* A hidden rectangle whose geometry is not its record's, beside an id *)
(* that has a record only and a point id that has a record only.       *)
C11_Witness ==
    /\ "r1" \in DOMAIN rects /\ ~rects["r1"].visible
    /\ "r1" \in DOMAIN rect_configs /\ IsDict(rect_configs["r1"])
    /\ rects["r1"].x # rect_configs["r1"].x
    /\ "s1" \in DOMAIN rect_configs /\ "s1" \notin DOMAIN rects
    /\ "p1" \in DOMAIN point_configs /\ "p1" \notin DOMAIN points
    /\ IsDict(point_configs["p1"])

Geometry(o) == [x |-> o.x, y |-> o.y, width |-> o.width, height |-> o.height]

(* C12: for every choice of explicit arguments, registerRect called    *)
(* twice in a row with the same arguments leaves the marker with the   *)
(* geometry it has after the first call.                               *)
C12_RegisterTwiceIsOnce ==
    \A c \in RegisterRectCalls :
        LET once == RegisterRect_create(Manager, c)
            twice == RegisterRect_create(once.m, c)
        IN ~once.raised =>
             /\ ~twice.raised
             /\ Geometry(twice.m.rects[c.id]) = Geometry(once.m.rects[c.id])

(* C13: every live rectangle has width >= 50 and height >= 50, also    *)
(* when registerRect seeded it from a persisted 30x30 record.          *)
C13_LiveRectHasMinSize ==
    \A id \in DOMAIN rects :
        rects[id].width >= MinSize /\ rects[id].height >= MinSize

(* The value the merge policy names for field k of the id, and the     *)
(* label it names.                                                     *)
Chosen(args, id, configs, defaults, k) ==
    IF k \in DOMAIN args THEN args[k]
    ELSE IF id \in DOMAIN configs /\ k \in DOMAIN configs[id] THEN configs[id][k]
    ELSE defaults[k]

ChosenLabel(label, id, configs) ==
    IF label # "" THEN label
    ELSE IF id \in DOMAIN configs /\ "label" \in DOMAIN configs[id]
         THEN configs[id]["label"]
         ELSE id

RecordIsObject(id, configs) == id \in DOMAIN configs => IsDict(configs[id])

(* C16 as stated: a registration on an id that has a live marker sets  *)
(* the marker's geometry and label to the merged values, leaves it     *)
(* visible, and changes neither the document nor the file.             *)
C16_UpdateSetsMergedValues ==
    /\ \A c \in RegisterRectCalls :
        (c.id \in DOMAIN rects /\ RecordIsObject(c.id, rect_configs)) =>
            LET r == RegisterRect_create(Manager, c)
                o == r.m.rects[c.id]
            IN /\ ~r.raised
               /\ \A k \in RectFields :
                     o[k] = Chosen(c.args, c.id, rect_configs, DEFAULT_RECT, k)
               /\ o.label = ChosenLabel(c.label, c.id, rect_configs)
               /\ o.visible
               /\ r.m.rect_configs = rect_configs
               /\ r.m.point_configs = point_configs
               /\ r.m.file = file
    /\ \A c \in RegisterPositionCalls :
        (c.id \in DOMAIN points /\ RecordIsObject(c.id, point_configs)) =>
            LET r == RegisterPosition_create(Manager, c)
                o == r.m.points[c.id]
            IN /\ ~r.raised
               /\ \A k \in PointFields :
                     o[k] = Chosen(c.args, c.id, point_configs, DEFAULT_POINT, k)
               /\ o.label = ChosenLabel(c.label, c.id, point_configs)
               /\ o.visible
               /\ r.m.rect_configs = rect_configs
               /\ r.m.point_configs = point_configs
               /\ r.m.file = file

(* C16 amended: the position and label are set to the merged values,   *)
(* the width and height to the merged values raised to 50 where they   *)
(* are below; the marker is left visible; the document, the file and   *)
(* every other marker are unchanged.                                   *)
C16_UpdateSetsFlooredMergedValues ==
    /\ \A c \in RegisterRectCalls :
        (c.id \in DOMAIN rects /\ RecordIsObject(c.id, rect_configs)) =>
            LET r == RegisterRect_create(Manager, c)
                o == r.m.rects[c.id]
                V(k) == Chosen(c.args, c.id, rect_configs, DEFAULT_RECT, k)
            IN /\ ~r.raised
               /\ o.x = V("x") /\ o.y = V("y")
               /\ o.width = Max(MinSize, V("width"))
               /\ o.height = Max(MinSize, V("height"))
               /\ o.label = ChosenLabel(c.label, c.id, rect_configs)
               /\ o.visible
               /\ r.m.rect_configs = rect_configs
               /\ r.m.point_configs = point_configs
               /\ r.m.file = file
               /\ r.m.points = points
    /\ \A c \in RegisterPositionCalls :
        (c.id \in DOMAIN points /\ RecordIsObject(c.id, point_configs)) =>
            LET r == RegisterPosition_create(Manager, c)
                o == r.m.points[c.id]
                V(k) == Chosen(c.args, c.id, point_configs, DEFAULT_POINT, k)
            IN /\ ~r.raised
               /\ o.x = V("x") /\ o.y = V("y")
               /\ o.label = ChosenLabel(c.label, c.id, point_configs)
               /\ o.visible
               /\ r.m.rect_configs = rect_configs
               /\ r.m.point_configs = point_configs
               /\ r.m.file = file
               /\ r.m.rects = rects

(* The rectangle seeded from the persisted 30x30 record and registered *)
(* again: 50x50 at the persisted position, shown, the record as it     *)
(* was; beside a live point.                                           *)
C16_Witness ==
    /\ "r1" \in DOMAIN rects /\ rects["r1"].visible
    /\ "r1" \in DOMAIN rect_configs
    /\ "width" \in DOMAIN rect_configs["r1"]
    /\ rect_configs["r1"]["width"] < MinSize
    /\ rects["r1"].width = MinSize
    /\ rects["r1"].x = rect_configs["r1"]["x"]
    /\ rects["r1"].label = rect_configs["r1"]["label"]
    /\ file # <<>> /\ file[1].rects = rect_configs

(* C17: on registration each geometry field is the explicit value if   *)
(* given, else the persisted record's value if present, else the       *)
(* default (rect 120,120,240,160; point 160,160); the label is the     *)
(* non-empty label given, else the persisted label, else the id.       *)
C17_MergePolicy ==
    /\ DEFAULT_RECT = [x |-> 120, y |-> 120, width |-> 240, height |-> 160]
    /\ DEFAULT_POINT = [x |-> 160, y |-> 160]
    /\ \A c \in RegisterRectCalls : RecordIsObject(c.id, rect_configs) =>
            LET r == RegisterRect_create(Manager, c)
                o == r.m.rects[c.id]
                V(k) == Chosen(c.args, c.id, rect_configs, DEFAULT_RECT, k)
            IN /\ ~r.raised
               /\ o.x = V("x") /\ o.y = V("y")
               /\ o.width \in {V("width"), Max(MinSize, V("width"))}
               /\ o.height \in {V("height"), Max(MinSize, V("height"))}
               /\ c.id \notin DOMAIN rects =>
                     o.width = V("width") /\ o.height = V("height")
               /\ o.label = ChosenLabel(c.label, c.id, rect_configs)
    /\ \A c \in RegisterPositionCalls : RecordIsObject(c.id, point_configs) =>
            LET r == RegisterPosition_create(Manager, c)
                o == r.m.points[c.id]
            IN /\ ~r.raised
               /\ \A k \in PointFields :
                     o[k] = Chosen(c.args, c.id, point_configs, DEFAULT_POINT, k)
               /\ o.label = ChosenLabel(c.label, c.id, point_configs)

(* A rectangle registered with an explicit size on a record that holds *)
(* x and an empty label only: x persisted, y the default, the size     *)
(* explicit, the label the persisted empty one; and a point with x     *)
(* explicit, y and the label persisted.                                *)
C17_Witness ==
    /\ "r1" \in DOMAIN rects
    /\ rects["r1"].x = 7 /\ rects["r1"].y = DEFAULT_RECT.y
    /\ rects["r1"].width = 30 /\ rects["r1"].label = ""
    /\ "p1" \in DOMAIN points
    /\ points["p1"].x = 100 /\ points["p1"].y = 50 /\ points["p1"].label = "L"

(* ------------------------------------------------------------------ *)
(* Claims checked on SpecMarker                                       *)
(* ------------------------------------------------------------------ *)
(* The rectangle after <B1-Motion> to the screen point t.              *)
MovedTo(o, t) == Overlay_on_mouse_drag_global(o, PointerEvent(t[1], t[2], o.x, o.y))

IsDragging(o) == o.visible /\ o.dragging /\ ~o.resizing
IsResizing(o) == o.visible /\ o.resizing

(* C14 as stated: after every pointer move while a rectangle is        *)
(* Dragging, for every delta and every rectangle size,                 *)
(* 0 <= x <= ScreenW - width and 0 <= y <= ScreenH - height.           *)
C14_DragStaysOnScreen ==
    \A id \in DOMAIN rects : IsDragging(rects[id]) =>
        \A t \in MarkerMoveTargets :
            LET o == MovedTo(rects[id], t)
            IN /\ 0 <= o.x /\ o.x <= ScreenW - o.width
               /\ 0 <= o.y /\ o.y <= ScreenH - o.height

(* C14 amended: the bounds hold on each axis where the rectangle is    *)
(* no larger than the screen; on an axis where it is larger the        *)
(* coordinate is 0.                                                    *)
C14_DragStaysOnScreenIfItFits ==
    \A id \in DOMAIN rects : IsDragging(rects[id]) =>
        \A t \in MarkerMoveTargets :
            LET o == MovedTo(rects[id], t)
            IN /\ o.width = rects[id].width /\ o.height = rects[id].height
               /\ IF o.width <= ScreenW
                  THEN 0 <= o.x /\ o.x <= ScreenW - o.width
                  ELSE o.x = 0
               /\ IF o.height <= ScreenH
                  THEN 0 <= o.y /\ o.y <= ScreenH - o.height
                  ELSE o.y = 0

(* A rectangle that fits the screen, dragged from where it was pressed *)
(* towards the far corner and held at the screen's far edges.          *)
C14_Witness ==
    /\ "r1" \in DOMAIN rects /\ IsDragging(rects["r1"]) /\ grab # <<>>
    /\ rects["r1"].width <= ScreenW /\ rects["r1"].height <= ScreenH
    /\ rects["r1"].x # rects["r1"].offset_x
    /\ rects["r1"].x = ScreenW - rects["r1"].width
    /\ rects["r1"].y = ScreenH - rects["r1"].height

(* C15: after every pointer move while a rectangle is Resizing, for    *)
(* every delta and every top-left position, width >= 50 and            *)
(* height >= 50.                                                       *)
C15_ResizeKeepsMinSize ==
    \A id \in DOMAIN rects : IsResizing(rects[id]) =>
        \A t \in MarkerMoveTargets :
            LET o == MovedTo(rects[id], t)
            IN o.width >= MinSize /\ o.height >= MinSize

RectRecord(o) ==
    [x |-> o.x, y |-> o.y, width |-> o.width, height |-> o.height, label |-> o.cb_label]
PointRecord(q) == [x |-> q.x, y |-> q.y, label |-> q.cb_label]
DocumentOf(m) == [rects |-> m.rect_configs, points |-> m.point_configs]

(* C18: a release puts the marker in Idle; when it ends a drag or a    *)
(* resize the callback is invoked exactly once, with the geometry the  *)
(* marker has after the release, also when the press was on the handle *)
(* and both release handlers run; a release in Idle invokes none.      *)
C18_ReleaseNotifiesOnce ==
    /\ grab # <<>> /\ grab[1].kind = "rect" =>
        LET id == grab[1].id
            o == rects[id]
            r == RectReleaseHandlers(o, grab[1].item)
            m == PointerReleased(Manager)
        IN /\ ~m.rects[id].dragging /\ ~m.rects[id].resizing
           /\ Geometry(m.rects[id]) = Geometry(o)
           /\ m.rects[id] = r.o
           /\ IF o.dragging \/ o.resizing
              THEN /\ r.notified = 1
                   /\ m.rect_configs = Put(rect_configs, id, RectRecord(m.rects[id]))
                   /\ m.file = <<DocumentOf(m)>>
              ELSE /\ r.notified = 0
                   /\ DocumentOf(m) = DocumentOf(Manager) /\ m.file = file
    /\ grab # <<>> /\ grab[1].kind = "point" =>
        LET id == grab[1].id
            q == points[id]
            r == Point_on_mouse_release(q)
            m == PointerReleased(Manager)
        IN /\ ~m.points[id].dragging
           /\ m.points[id].x = q.x /\ m.points[id].y = q.y
           /\ IF q.dragging
              THEN /\ r.notify
                   /\ m.point_configs = Put(point_configs, id, PointRecord(m.points[id]))
                   /\ m.file = <<DocumentOf(m)>>
              ELSE /\ ~r.notify
                   /\ DocumentOf(m) = DocumentOf(Manager) /\ m.file = file
    /\ \A id \in DOMAIN rects : \A item \in {"handle", "surface"} :
        (~rects[id].dragging /\ ~rects[id].resizing) =>
            /\ RectReleaseHandlers(rects[id], item).notified = 0
            /\ RectReleaseHandlers(rects[id], item).o = rects[id]
    /\ \A id \in DOMAIN points :
        ~points[id].dragging => ~Point_on_mouse_release(points[id]).notify

(* The rectangle registered at 10,20 after a resize by its handle was  *)
(* released: Idle, its record and the file holding the new size.       *)
C18_Witness ==
    /\ grab = <<>>
    /\ "r1" \in DOMAIN rects /\ "r1" \in DOMAIN rect_configs
    /\ ~rects["r1"].dragging /\ ~rects["r1"].resizing
    /\ rects["r1"].x = 10 /\ rects["r1"].start_width = 200
    /\ rects["r1"].width > rects["r1"].start_width
    /\ rect_configs["r1"] = RectRecord(rects["r1"])
    /\ file = <<DocumentOf(Manager)>>

(* C19: between a press and its release a pointer move changes the     *)
(* marker's geometry only: no callback, so the document and the file   *)
(* are as before, the press is still in progress and the mode is the   *)
(* same, after any number of moves.                                    *)
C19_MovesAreSilent ==
    grab # <<>> =>
        \A t \in MarkerMoveTargets :
            LET m == PointerMoved(Manager, t[1], t[2])
                g == grab[1]
            IN /\ DocumentOf(m) = DocumentOf(Manager)
               /\ m.file = file
               /\ m.grab = grab
               /\ IF g.kind = "rect"
                  THEN /\ m.points = points
                       /\ m.rects[g.id].dragging = rects[g.id].dragging
                       /\ m.rects[g.id].resizing = rects[g.id].resizing
                       /\ m.rects[g.id] = MovedTo(rects[g.id], t)
                  ELSE /\ m.rects = rects
                       /\ m.points[g.id].dragging = points[g.id].dragging

(* A rectangle dragged away from where it was pressed, with no record  *)
(* and no file written so far.                                         *)
C19_Witness ==
    /\ grab # <<>> /\ grab[1].kind = "rect"
    /\ rects[grab[1].id].dragging
    /\ rects[grab[1].id].x # rects[grab[1].id].offset_x
    /\ DOMAIN rect_configs = {} /\ file = <<>>

(* C20: in every reachable state of a rectangle, after any sequence of *)
(* press, move, release, hide and show, the dragging flag and the      *)
(* resizing flag are not both set.                                     *)
C20_NotDraggingAndResizing ==
    \A id \in DOMAIN rects : ~(rects[id].dragging /\ rects[id].resizing)

(* A rectangle hidden during a resize, shown again and pressed off its *)
(* handle: the resizing flag is still set and no drag starts.          *)
C20_Witness ==
    /\ grab # <<>> /\ grab[1].kind = "rect" /\ grab[1].item = "surface"
    /\ rects[grab[1].id].visible
    /\ rects[grab[1].id].resizing /\ ~rects[grab[1].id].dragging

(* What hideAll and showAll leave as it was in a marker.               *)
RectKept(o) == [o EXCEPT !.visible = TRUE]
PointKept(q) == [q EXCEPT !.visible = TRUE]

(* C21: hideAll() hides and showAll() shows every instantiated marker  *)
(* of both kinds; neither changes a marker's geometry or anything else *)
(* of it, the document or the file.                                    *)
C21_HideShowAllFrame ==
    LET h == HideAll_hide(Manager)
        s == ShowAll_show(Manager)
    IN /\ DOMAIN h.rects = DOMAIN rects /\ DOMAIN s.rects = DOMAIN rects
       /\ DOMAIN h.points = DOMAIN points /\ DOMAIN s.points = DOMAIN points
       /\ \A id \in DOMAIN rects :
            /\ ~h.rects[id].visible /\ s.rects[id].visible
            /\ RectKept(h.rects[id]) = RectKept(rects[id])
            /\ RectKept(s.rects[id]) = RectKept(rects[id])
       /\ \A id \in DOMAIN points :
            /\ ~h.points[id].visible /\ s.points[id].visible
            /\ PointKept(h.points[id]) = PointKept(points[id])
            /\ PointKept(s.points[id]) = PointKept(points[id])
       /\ DocumentOf(h) = DocumentOf(Manager) /\ h.file = file
       /\ DocumentOf(s) = DocumentOf(Manager) /\ s.file = file

(* A rectangle and a point, both hidden, with a record that is not the *)
(* rectangle's position.                                               *)
C21_Witness ==
    /\ "r1" \in DOMAIN rects /\ ~rects["r1"].visible
    /\ "p1" \in DOMAIN points /\ ~points["p1"].visible
    /\ "r1" \in DOMAIN rect_configs /\ IsDict(rect_configs["r1"])
    /\ "x" \in DOMAIN rect_configs["r1"]
    /\ rect_configs["r1"]["x"] # rects["r1"].x

(* C27: once the first registerRect/registerPosition of an id has      *)
(* returned, the document holds a record for the id with every         *)
(* geometry field and a label, even if the marker is never dragged.    *)
C27_RegisteredIdHasRecord ==
    /\ \A id \in DOMAIN rects :
        /\ id \in DOMAIN rect_configs
        /\ IsDict(rect_configs[id])
        /\ RectFields \cup {"label"} \subseteq DOMAIN rect_configs[id]
    /\ \A id \in DOMAIN points :
        /\ id \in DOMAIN point_configs
        /\ IsDict(point_configs[id])
        /\ PointFields \cup {"label"} \subseteq DOMAIN point_configs[id]

(* C26: a hidden marker is Idle: no Dragging or Resizing survives a    *)
(* hide, also one between a press and its release.                     *)
C26_HiddenIsIdle ==
    /\ \A id \in DOMAIN rects :
        ~rects[id].visible => ~rects[id].dragging /\ ~rects[id].resizing
    /\ \A id \in DOMAIN points :
        ~points[id].visible => ~points[id].dragging

(* C28: the record written by a release that ends a drag or a resize   *)
(* carries the label the marker displays then, also after the live     *)
(* marker was registered again with another label.                     *)
C28_ReleaseWritesShownLabel ==
    grab # <<>> =>
        LET g == grab[1]
            m == PointerReleased(Manager)
        IN IF g.kind = "rect"
           THEN (rects[g.id].dragging \/ rects[g.id].resizing) =>
                    m.rect_configs[g.id]["label"] = rects[g.id].label
           ELSE points[g.id].dragging =>
                    m.point_configs[g.id]["label"] = points[g.id].label

(* ------------------------------------------------------------------ *)
(* The configuration store, file by file                              *)
(* ------------------------------------------------------------------ *)
(* A text is a sequence of tokens: "{" and "}", a key with its colon,  *)
(* a number, a string, another literal (null, true, a list), or bytes  *)
(* that are not UTF-8.  Commas and white space carry nothing.          *)
OpenBrace == [p |-> "{"]
CloseBrace == [p |-> "}"]
KeyToken(k) == [key |-> k]
NumToken(n) == [num |-> n]
StrToken(v) == [str |-> v]
NullToken == [lit |-> "null"]
BadBytes == [bytes |-> "not utf-8"]

(* The depth at which the fields of a marker record are found.         *)
FieldDepth == 3

(* The keys of a dict in the order json.dump walks them.               *)
RECURSIVE KeysOf(_)
KeysOf(keys) ==
    IF keys = {} THEN <<>>
    ELSE LET k == CHOOSE j \in keys : TRUE IN <<k>> \o KeysOf(keys \ {k})

(* A field of a marker record as json.dump writes it: the label is a  *)
(* string, the geometry numbers.                                       *)
FieldToken(k, v) == IF k = "label" THEN StrToken(v) ELSE NumToken(v)

(* json.dump of a value found at a depth of the document: an object,   *)
(* or null for what is no object; and of the members of an object.     *)
RECURSIVE DumpValue(_, _)
RECURSIVE DumpMembers(_, _, _)
DumpMembers(d, keys, depth) ==
    IF keys = <<>> THEN <<>>
    ELSE <<KeyToken(Head(keys))>>
         \o (IF depth < FieldDepth THEN DumpValue(d[Head(keys)], depth)
             ELSE <<FieldToken(Head(keys), d[Head(keys)])>>)
         \o DumpMembers(d, Tail(keys), depth)

(* A dump that leaves the labels out.                                  *)
DumpWithoutLabels(d, depth) ==
    <<OpenBrace>> \o DumpMembers(d, KeysOf(DOMAIN d \ {"label"}), depth + 1)
    \o <<CloseBrace>>

DumpDict(d, depth) ==
    <<OpenBrace>> \o DumpMembers(d, KeysOf(DOMAIN d), depth + 1) \o <<CloseBrace>>

DumpValue(v, depth) ==
    IF IsDict(v) THEN DumpDict(v, depth) ELSE <<NullToken>>

(* json.dump(data, fh, ensure_ascii=False, indent=2)                   *)
json_dump(data) == DumpValue(data, 0)

(* The value a scalar token stands for.                                *)
Untoken(tok) ==
    IF "num" \in DOMAIN tok THEN tok.num
    ELSE IF "str" \in DOMAIN tok THEN tok.str
    ELSE NotADict

(* The JSON parser: the value starting at token i, found at a depth.   *)
ParseFailed == [ok |-> FALSE, val |-> NotADict, next |-> 0]
RECURSIVE ParseValue(_, _, _)
RECURSIVE ParseMembers(_, _, _, _)
ParseMembers(text, i, depth, acc) ==
    IF i > Len(text) THEN ParseFailed
    ELSE IF text[i] = CloseBrace THEN [ok |-> TRUE, val |-> acc, next |-> i + 1]
    ELSE IF "key" \in DOMAIN text[i]
    THEN LET r == ParseValue(text, i + 1, depth)
         IN IF r.ok
            THEN ParseMembers(text, r.next, depth, Put(acc, text[i].key, r.val))
            ELSE ParseFailed
    ELSE ParseFailed

ParseValue(text, i, depth) ==
    IF i > Len(text) THEN ParseFailed
    ELSE IF text[i] = OpenBrace THEN ParseMembers(text, i + 1, depth + 1, EmptyDict)
    ELSE IF DOMAIN text[i] \cap {"num", "str", "lit"} # {}
    THEN [ok |-> TRUE,
          val |-> IF depth < FieldDepth THEN NotADict ELSE Untoken(text[i]),
          next |-> i + 1]
    ELSE ParseFailed

(* json.load(fh) on a file opened with encoding="utf-8", whose value   *)
(* sits at a depth of the document (0 for overlays.json, 1 for a       *)
(* legacy file, which holds one namespace).                            *)
json_load(text, depth) ==
    IF \E i \in 1..Len(text) : text[i] = BadBytes
    THEN [raises |-> "UnicodeDecodeError", val |-> NotADict]
    ELSE LET r == ParseValue(text, 1, depth)
         IN IF r.ok /\ r.next = Len(text) + 1
            THEN [raises |-> "", val |-> r.val]
            ELSE [raises |-> "JSONDecodeError", val |-> NotADict]

(* The paths of the configuration directory.                           *)
config_path == [stem |-> "overlays", suffix |-> ".json"]
with_suffix(path, suffix) == [path EXCEPT !.suffix = suffix]
LegacyRects == [stem |-> "rects", suffix |-> ".json"]
LegacyPoints == [stem |-> "points", suffix |-> ".json"]

(* A temporary path that is the path itself.                           *)
same_path(path) == path

(* tmp_path = self._config_path.with_suffix(".tmp")                    *)
tmp_path(path) == with_suffix(path, ".tmp")

Paths == {config_path, tmp_path(config_path), LegacyRects, LegacyPoints}

exists(d, path) == d[path] # <<>>

(* What the except clauses of the loaders catch.                       *)
Caught == {"JSONDecodeError", "OSError"}

(* _load_legacy_file: the namespace, or the exception that escapes.    *)
load_legacy_file(d, path) ==
    IF ~exists(d, path) THEN [raises |-> "", val |-> EmptyDict]
    ELSE LET r == json_load(d[path][1], 1)
         IN IF r.raises \in Caught THEN [raises |-> "", val |-> EmptyDict]
            ELSE IF r.raises # "" THEN r
            ELSE [raises |-> "",
                  val |-> IF IsDict(r.val) THEN r.val ELSE EmptyDict]

EmptyDocument == [rects |-> EmptyDict, points |-> EmptyDict]

(* _migrate_legacy_configs up to its write: the exception that         *)
(* escapes, None, or the data it goes on to write.                     *)
migrate_legacy_configs(d) ==
    LET r == load_legacy_file(d, LegacyRects)
        q == load_legacy_file(d, LegacyPoints)
    IN IF r.raises # "" THEN [raises |-> r.raises, none |-> TRUE, data |-> EmptyDocument]
       ELSE IF q.raises # "" THEN [raises |-> q.raises, none |-> TRUE, data |-> EmptyDocument]
       ELSE IF DOMAIN r.val = {} /\ DOMAIN q.val = {}
       THEN [raises |-> "", none |-> TRUE, data |-> EmptyDocument]
       ELSE [raises |-> "", none |-> FALSE,
             data |-> [rects |-> r.val, points |-> q.val]]

(* data.get(k, {}) if isinstance(data.get(k), dict) else {}            *)
Namespace(data, k) ==
    IF k \in DOMAIN data /\ IsDict(data[k]) THEN data[k] ELSE EmptyDict

(* _load_all_configs up to the write of a migration: the exception     *)
(* that escapes, or the document and whether it is written first.      *)
load_all_configs(d) ==
    IF exists(d, config_path)
    THEN LET r == json_load(d[config_path][1], 0)
             data == IF r.raises = "" /\ IsDict(r.val) THEN r.val ELSE EmptyDict
         IN IF r.raises # "" /\ r.raises \notin Caught
            THEN [raises |-> r.raises, write |-> FALSE, doc |-> EmptyDocument]
            ELSE [raises |-> "", write |-> FALSE,
                  doc |-> [rects |-> Namespace(data, "rects"),
                           points |-> Namespace(data, "points")]]
    ELSE LET legacy == migrate_legacy_configs(d)
         IN [raises |-> legacy.raises,
             write |-> legacy.raises = "" /\ ~legacy.none,
             doc |-> legacy.data]

(* Where a process is: none running ("down"), a manager constructed    *)
(* ("idle"), or in _write_config_file before the open of the temporary *)
(* file ("open") or after it ("dump"); the data it writes; and whether *)
(* the last constructor raised.                                        *)
Io(step, op, data, raised) ==
    [step |-> step, op |-> op, data |-> data, raised |-> raised]
Down == Io("down", "", EmptyDocument, FALSE)

(* The documents and the files of the runs of the store.               *)
RecA == [x |-> 5, y |-> 6, width |-> 70, height |-> 80, label |-> "a"]
RecP == [x |-> 40, y |-> 50, label |-> "pt"]
DocA == [rects |-> [r1 |-> RecA], points |-> [p1 |-> RecP]]
Absent == <<>>
CanonicalFiles ==
    {Absent,
     <<json_dump(DocA)>>,
     <<SubSeq(json_dump(DocA), 1, 4)>>,
     <<<<NullToken>>>>,
     <<json_dump([rects |-> NotADict, points |-> DocA.points])>>,
     <<json_dump([points |-> DocA.points])>>,
     <<<<BadBytes>>>>}
LegacyRectsFiles ==
    {Absent, <<DumpValue(DocA.rects, 1)>>, <<DumpValue(EmptyDict, 1)>>,
     <<<<BadBytes>>>>}
LegacyPointsFiles == {Absent, <<DumpValue(DocA.points, 1)>>}
SavedRecords ==
    {[ns |-> "rects", id |-> "r1",
      rec |-> [x |-> 10, y |-> 20, width |-> 200, height |-> 100, label |-> "L"]],
     [ns |-> "points", id |-> "p1", rec |-> [x |-> 100, y |-> 50, label |-> "p1"]]}

(* OverlayManager(config_dir) by a new process, up to the first step   *)
(* on a file: the load raises, or returns, or goes on to write.        *)
StoreConstruct ==
    /\ io.step = "down"
    /\ LET r == load_all_configs(disk)
       IN IF r.raises # "" THEN
               /\ io.raised = FALSE
               /\ io' = Io("down", "", EmptyDocument, TRUE)
               /\ UNCHANGED <<rect_configs, point_configs>>
          ELSE IF r.write THEN
               /\ io' = Io("open", "migrate", r.doc, FALSE)
               /\ UNCHANGED <<rect_configs, point_configs>>
          ELSE /\ io' = Io("idle", "", EmptyDocument, FALSE)
               /\ rect_configs' = r.doc.rects
               /\ point_configs' = r.doc.points
    /\ UNCHANGED <<dispatcherVars, callerVars, rects, points, file,
                   overlay_registry, point_registry, grab, disk, other, hist>>

(* A release callback: the record is put in the document, and          *)
(* _save_all_configs begins.                                           *)
StoreCallback(c) ==
    /\ io.step = "idle"
    /\ ncalls < MaxCalls
    /\ ncalls' = ncalls + 1
    /\ rect_configs' = IF c.ns = "rects" THEN Put(rect_configs, c.id, c.rec)
                       ELSE rect_configs
    /\ point_configs' = IF c.ns = "points" THEN Put(point_configs, c.id, c.rec)
                        ELSE point_configs
    /\ io' = Io("open", "save",
                [rects |-> rect_configs', points |-> point_configs'], FALSE)
    /\ UNCHANGED <<dispatcherVars, pc, call, rects, points, file,
                   overlay_registry, point_registry, grab, disk, other, hist>>

StoreUnchanged ==
    UNCHANGED <<dispatcherVars, callerVars, rects, points, file,
                overlay_registry, point_registry, grab, other, hist>>

(* tmp_path.open("w", encoding="utf-8"): created or truncated.         *)
WriteOpen ==
    /\ io.step = "open"
    /\ disk' = [disk EXCEPT ![tmp_path(config_path)] = <<<<>>>>]
    /\ io' = [io EXCEPT !.step = "dump"]
    /\ UNCHANGED <<rect_configs, point_configs>>
    /\ StoreUnchanged

(* json.dump: the next piece of the text reaches the file.             *)
WriteChunk ==
    /\ io.step = "dump"
    /\ LET tmp == tmp_path(config_path)
           text == json_dump(io.data)
           n == Len(disk[tmp][1])
       IN /\ n < Len(text)
          /\ disk' = [disk EXCEPT ![tmp] = <<Append(@[1], text[n + 1])>>]
    /\ UNCHANGED <<io, rect_configs, point_configs>>
    /\ StoreUnchanged

(* tmp_path.replace(self._config_path), once the file is closed; a     *)
(* migration then returns its data to the constructor.                 *)
WriteReplace ==
    /\ io.step = "dump"
    /\ LET tmp == tmp_path(config_path)
       IN /\ Len(disk[tmp][1]) = Len(json_dump(io.data))
          /\ disk' = IF tmp = config_path THEN disk
                     ELSE [disk EXCEPT ![config_path] = disk[tmp], ![tmp] = <<>>]
    /\ io' = Io("idle", "", EmptyDocument, FALSE)
    /\ IF io.op = "migrate"
       THEN /\ rect_configs' = io.data.rects
            /\ point_configs' = io.data.points
       ELSE UNCHANGED <<rect_configs, point_configs>>
    /\ StoreUnchanged

(* The process ends, at any place: what it held in memory is gone.     *)
Crash ==
    /\ io.step # "down"
    /\ io' = Down
    /\ rect_configs' = EmptyDict
    /\ point_configs' = EmptyDict
    /\ UNCHANGED disk
    /\ StoreUnchanged

(* Somebody else changes a legacy file.                                *)
LegacyChanged ==
    /\ \E r \in LegacyRectsFiles, q \in LegacyPointsFiles :
        /\ <<r, q>> # <<disk[LegacyRects], disk[LegacyPoints]>>
        /\ disk' = [disk EXCEPT ![LegacyRects] = r, ![LegacyPoints] = q]
    /\ UNCHANGED <<io, rect_configs, point_configs>>
    /\ StoreUnchanged

InitStore ==
    /\ StartedAt("update")
    /\ file = NoFile
    /\ rect_configs = EmptyDict
    /\ point_configs = EmptyDict
    /\ io = Down
    /\ \E c \in CanonicalFiles, r \in LegacyRectsFiles, q \in LegacyPointsFiles :
        disk = [path \in Paths |->
                  IF path = config_path THEN c
                  ELSE IF path = LegacyRects THEN r
                  ELSE IF path = LegacyPoints THEN q
                  ELSE Absent]

NextStore ==
    \/ StoreConstruct
    \/ \E c \in SavedRecords : StoreCallback(c)
    \/ WriteOpen
    \/ WriteChunk
    \/ WriteReplace
    \/ Crash
    \/ LegacyChanged

SpecStore == InitStore /\ [][NextStore]_vars

(* ------------------------------------------------------------------ *)
(* Claims checked on SpecStore                                        *)
(* ------------------------------------------------------------------ *)
(* The document in memory.                                             *)
Document == [rects |-> rect_configs, points |-> point_configs]

Partial(f) == f # <<>> /\ json_load(f[1], 0).raises = "JSONDecodeError"
Complete(f) == f # <<>> /\ json_load(f[1], 0).raises = ""

(* C22: whatever the step of a save, and wherever a process ends,      *)
(* overlays.json stays as it was or becomes the complete text of the   *)
(* document being saved; it never holds a part of it.                  *)
C22_CanonicalNeverPartial ==
    [][\/ disk'[config_path] = disk[config_path]
       \/ disk'[config_path] = <<json_dump(io.data)>>]_vars

(* A process ended in the middle of its second save: the temporary     *)
(* file holds a part of the text, overlays.json the first save.        *)
C22_Witness ==
    /\ io.step = "down"
    /\ Partial(disk[tmp_path(config_path)])
    /\ Complete(disk[config_path])
    /\ ncalls > 1
    /\ disk[config_path] # Absent
    /\ \E c \in SavedRecords : \E doc \in {DocA, EmptyDocument} :
        disk[config_path] =
            <<json_dump([doc EXCEPT ![c.ns] = Put(@, c.id, c.rec)])>>

(* C23: load() never raises, and the document it returns has both      *)
(* namespaces, each an object.                                         *)
C23_LoadNeverRaises ==
    LET r == load_all_configs(disk)
    IN /\ r.raises = ""
       /\ DOMAIN r.doc = {"rects", "points"}
       /\ IsDict(r.doc.rects) /\ IsDict(r.doc.points)

(* The namespace a legacy file holds: its object when it parses to     *)
(* one, else nothing.                                                  *)
LegacyNamespace(f) ==
    IF f = Absent THEN EmptyDict
    ELSE LET r == ParseValue(f[1], 1, 1)
         IN IF r.ok /\ r.next = Len(f[1]) + 1 /\ IsDict(r.val) THEN r.val
            ELSE EmptyDict

(* C24: with overlays.json absent and a legacy file present, load()    *)
(* returns the two legacy namespaces as one document and writes it to  *)
(* overlays.json; with overlays.json present, load() returns what it   *)
(* holds whatever the legacy files have become.                        *)
C24_MigratesOnce ==
    LET r == load_all_configs(disk)
    IN /\ (~exists(disk, config_path)
           /\ (exists(disk, LegacyRects) \/ exists(disk, LegacyPoints)))
          => /\ r.raises = ""
             /\ r.doc = [rects |-> LegacyNamespace(disk[LegacyRects]),
                         points |-> LegacyNamespace(disk[LegacyPoints])]
             /\ r.write
       /\ exists(disk, config_path)
          => \A lr \in LegacyRectsFiles, lp \in LegacyPointsFiles :
                load_all_configs([disk EXCEPT ![LegacyRects] = lr,
                                              ![LegacyPoints] = lp]) = r

(* C25: load() after save(document) returns the document: the same     *)
(* ids with the same fields; for the document in memory at any time,   *)
(* and for overlays.json as a manager at rest finds it after its save. *)
C25_SaveLoadRoundTrip ==
    /\ load_all_configs([disk EXCEPT ![config_path] = <<json_dump(Document)>>])
         = [raises |-> "", write |-> FALSE, doc |-> Document]
    /\ (io.step = "idle" /\ ncalls > 0 /\ exists(disk, config_path))
        => load_all_configs(disk).doc = Document

(* A manager at rest after two saves, holding a rectangle and a point. *)
C25_Witness ==
    /\ io.step = "idle"
    /\ ncalls > 1
    /\ exists(disk, config_path)
    /\ "r1" \in DOMAIN rect_configs /\ rect_configs["r1"]["label"] = "L"
    /\ "p1" \in DOMAIN point_configs /\ point_configs["p1"]["x"] = 100

(* ------------------------------------------------------------------ *)
(* The worker's loop under a stream of pointer events                 *)
(* ------------------------------------------------------------------ *)
(* Two caller threads on a running dispatcher that nobody stops, and a *)
(* pointer that may press, move and release without end.               *)
LiveCalls(t) ==
    {MakeCall("registerRect", "r1", "L",
              [x |-> 10, y |-> 20, width |-> 200, height |-> 100], t)}

InitLive == Constructed({NoFile})

(* One pass of the worker's loop: every step of it returns, update()   *)
(* included once the events pending have been handled.                 *)
WorkerLoop ==
    \E w \in ThreadIds : WorkerGet(w) \/ WorkerExec(w) \/ WorkerUpdateDone(w)

NextLive ==
    \/ \E t \in Callers : \E c \in LiveCalls(t) : BeginCall(t, c)
    \/ \E t \in Callers : Submit(t)
    \/ \E t \in Callers : TakeResult(t)
    \/ \E w \in ThreadIds : WorkerGet(w)
    \/ \E w \in ThreadIds : WorkerExec(w)
    \/ \E w \in ThreadIds : WorkerUpdateDone(w)
    \/ \E w \in ThreadIds : RectPress(w)
    \/ \E w \in ThreadIds : PointerMove(w)
    \/ \E w \in ThreadIds : PointerRelease(w)

(* The worker thread is scheduled fairly; nothing is asked of callers  *)
(* or of the pointer.                                                  *)
SpecLive == InitLive /\ [][NextLive]_vars /\ WF_vars(WorkerLoop)

(* C29: on a dispatcher that is not stopped, every command in the      *)
(* queue is eventually executed by the worker and its future resolved, *)
(* however many pointer events keep arriving.                          *)
C29_QueuedIsExecuted ==
    \A t \in Callers :
        InQueue(t) ~> (~InQueue(t) /\ futures[t].state \in {"ok", "raised"})

(* A command has been executed between the press and the release of    *)
(* the pointer, while another waits in the queue.                      *)
C29_Witness ==
    /\ grab # <<>>
    /\ \E t \in Callers : futures[t].state = "ok" /\ hist.lastExec > 1
    /\ tk_queue # <<>>

(* C30: a drain executes only the commands that were queued when it    *)
(* began: a command queued while the drain is running another one      *)
(* waits for the next tick, after the UI events.                       *)
C30_DrainIsBounded ==
    \A w \in DOMAIN threads :
        threads[w].pc = "exec" => ~hist.late[EntryFuture(threads[w].cur[1])]

(* ------------------------------------------------------------------ *)
(* Claims on the handlers of one marker (SpecMarker)                  *)
(* ------------------------------------------------------------------ *)
(* The surface points around the edges of the handle square.           *)
PressGrid(o) ==
    {0, o.width - ResizeHandleSize - 1, o.width - ResizeHandleSize, o.width - 1}
    \X {0, o.height - ResizeHandleSize - 1, o.height - ResizeHandleSize,
        o.height - 1}

(* C31: a press on an Idle rectangle starts a resize exactly when it   *)
(* lies in the bottom-right handle square and resizing is enabled,     *)
(* else a drag exactly when dragging is enabled, else nothing; the     *)
(* mode entered records the pointer's screen point and the marker's    *)
(* size (resize) or position (drag).                                   *)
C31_PressChoosesMode ==
    \A id \in DOMAIN rects : \A d, r \in BOOLEAN :
        LET o == [rects[id] EXCEPT !.draggable = d, !.resizable = r]
        IN (o.visible /\ ~o.dragging /\ ~o.resizing) =>
            \A pt \in PressGrid(o) :
                LET n == RectPressed([Manager EXCEPT !.rects[id] = o],
                                     id, pt[1], pt[2]).rects[id]
                    in_square == /\ pt[1] >= o.width - ResizeHandleSize
                                 /\ pt[2] >= o.height - ResizeHandleSize
                    anchored == /\ n.start_x = o.x + pt[1]
                                /\ n.start_y = o.y + pt[2]
                IN IF in_square /\ r
                   THEN /\ n.resizing /\ ~n.dragging /\ anchored
                        /\ n.start_width = o.width /\ n.start_height = o.height
                        /\ Geometry(n) = Geometry(o)
                   ELSE IF d
                   THEN /\ n.dragging /\ ~n.resizing /\ anchored
                        /\ n.offset_x = o.x /\ n.offset_y = o.y
                        /\ Geometry(n) = Geometry(o)
                   ELSE n = o

(* A press on the top-left pixel of the handle has started a resize.   *)
C31_Witness ==
    \E id \in DOMAIN rects :
        /\ grab = <<[kind |-> "rect", id |-> id, item |-> "handle"]>>
        /\ rects[id].resizing /\ ~rects[id].dragging
        /\ rects[id].start_x = rects[id].x + rects[id].width - ResizeHandleSize
        /\ rects[id].start_width = rects[id].width

(* The screen points a drag is taken to, on and far off the screen,    *)
(* and the sizes of a point's window: the least one, and one that a    *)
(* long label has made larger than the screen.                         *)
DragGrid ==
    {0 - ScreenW, 0, PointSize, ScreenW - PointSize, ScreenW - 1, 2 * ScreenW}
    \X {0 - ScreenH, 0, PointSize, ScreenH - PointSize, ScreenH - 1, 2 * ScreenH}
WindowSizes == {PointWindowSize, ScreenW + ScreenH}

(* C32: after a pointer move on a point that is being dragged, for     *)
(* every place the pointer is moved to, the point is at least          *)
(* pointSize away from every edge of the screen.                       *)
C32_PointStaysOnScreen ==
    \A id \in DOMAIN points :
        points[id].dragging =>
            \A ws \in WindowSizes : \A t \in DragGrid :
                LET p == [points[id] EXCEPT !.window_size = ws]
                    q == Point_on_mouse_drag(p, PointerEvent(t[1], t[2], p.x, p.y))
                IN /\ PointSize <= q.x /\ q.x <= ScreenW - PointSize
                   /\ PointSize <= q.y /\ q.y <= ScreenH - PointSize

(* A point dragged towards the bottom-right corner of the screen and   *)
(* stopped by the clamp.                                               *)
C32_Witness ==
    \E id \in DOMAIN points :
        /\ points[id].dragging
        /\ grab # <<>>
        /\ points[id].x = ScreenW - (points[id].window_size \div 2)
        /\ points[id].y = ScreenH - (points[id].window_size \div 2)

(* ------------------------------------------------------------------ *)
(* A release whose callback raises                                    *)
(* ------------------------------------------------------------------ *)
(* _callback when _write_config_file raises (the directory is gone,    *)
(* the disk is full): the record is in the document, overlays.json is  *)
(* as it was, and the exception leaves the callback.                   *)
RectCallbackRaising(m, rect_id, rect_label, nx, ny, w, h) ==
    Raised([m EXCEPT !.rect_configs =
               Put(@, rect_id, [x |-> nx, y |-> ny, width |-> w, height |-> h,
                                label |-> rect_label])])

PointCallbackRaising(m, point_id, point_label, nx, ny) ==
    Raised([m EXCEPT !.point_configs =
               Put(@, point_id, [x |-> nx, y |-> ny, label |-> point_label])])

(* A _notify_callback with no try around the call.                     *)
notify_uncaught(r) == r

(* _notify_callback: try: self.callback(...) except Exception: print.  *)
notify_callback(r) == Ran(r.m, <<>>)

(* The release handlers of the pressed marker when every call of the   *)
(* callback raises: the state after them, and whether an exception     *)
(* left them.                                                          *)
ReleasedRaising(m) ==
    LET id == m.grab[1].id
    IN IF m.grab[1].kind = "rect"
       THEN LET r == RectReleaseHandlers(m.rects[id], m.grab[1].item)
                m1 == [m EXCEPT !.rects[id] = r.o, !.grab = <<>>]
            IN IF r.notified = 0 THEN Ran(m1, <<>>)
               ELSE notify_callback(
                        RectCallbackRaising(m1, id, r.o.cb_label, r.o.x, r.o.y,
                                            r.o.width, r.o.height))
       ELSE LET r == Point_on_mouse_release(m.points[id])
                m1 == [m EXCEPT !.points[id] = r.o, !.grab = <<>>]
            IN IF ~r.notify THEN Ran(m1, <<>>)
               ELSE notify_callback(
                        PointCallbackRaising(m1, id, r.o.cb_label, r.o.x, r.o.y))

(* <ButtonRelease-1> delivered by root.update() while saving fails.    *)
PointerReleaseRaising(w) ==
    /\ Updating(w)
    /\ grab # <<>>
    /\ SetManager(ReleasedRaising(Manager).m)
    /\ UNCHANGED <<dispatcherVars, callerVars, hist>>

(* A rectangle and a point registered, hidden, pressed, moved and      *)
(* released, with saves that work and saves that fail.                 *)
RaisingCalls ==
    {MakeCall("registerRect", "r1", "L",
              [x |-> 10, y |-> 20, width |-> 200, height |-> 100], 1),
     MakeCall("registerPosition", "p1", "", EmptyDict, 1),
     MakeCall("hideAll", "", "", EmptyDict, 1)}

NextRaising ==
    \/ \E w \in ThreadIds : \E c \in RaisingCalls : CallCompleted(w, c)
    \/ \E w \in ThreadIds : RectPress(w)
    \/ \E w \in ThreadIds : PointPress(w)
    \/ \E w \in ThreadIds : PointerMove(w)
    \/ \E w \in ThreadIds : PointerRelease(w)
    \/ \E w \in ThreadIds : PointerReleaseRaising(w)

SpecRaising == InitMarker /\ [][NextRaising]_vars

(* C33: when the callback raises on a release, the exception is caught *)
(* where the callback is invoked: the release handler completes, the   *)
(* marker is Idle with the geometry and the visibility it had, nothing *)
(* else of the markers changes, and the worker goes on with update().  *)
C33_CallbackFailureIsCaught ==
    grab # <<>> =>
        LET id == grab[1].id
            r == ReleasedRaising(Manager)
        IN /\ ~r.raised
           /\ r.m.grab = <<>>
           /\ r.m.file = file
           /\ DOMAIN r.m.rects = DOMAIN rects /\ DOMAIN r.m.points = DOMAIN points
           /\ IF grab[1].kind = "rect"
              THEN /\ ~r.m.rects[id].dragging /\ ~r.m.rects[id].resizing
                   /\ Geometry(r.m.rects[id]) = Geometry(rects[id])
                   /\ r.m.rects[id].visible = rects[id].visible
                   /\ r.m.points = points
              ELSE /\ ~r.m.points[id].dragging
                   /\ r.m.points[id].x = points[id].x
                   /\ r.m.points[id].y = points[id].y
                   /\ r.m.points[id].visible = points[id].visible
                   /\ r.m.rects = rects

(* A rectangle at rest after a drag or a resize whose save failed: its *)
(* record is in the document and not in overlays.json, and the worker  *)
(* is in its loop.                                                     *)
C33_Witness ==
    /\ grab = <<>>
    /\ \E w \in Workers : threads[w].pc = "update"
    /\ \E id \in DOMAIN rects :
        /\ rects[id].visible /\ ~rects[id].dragging /\ ~rects[id].resizing
        /\ id \in DOMAIN rect_configs
        /\ Restrict(rect_configs[id], RectFields) = Geometry(rects[id])
        /\ file = NoFile

(* C34: show() on a visible marker and hide() on a hidden marker       *)
(* change nothing of it: visibility, geometry, label, mode and         *)
(* anchors, for rectangles and for points.                             *)
C34_ShowHideIdempotent ==
    /\ \A id \in DOMAIN rects :
        /\ rects[id].visible => Overlay_show(rects[id]) = rects[id]
        /\ ~rects[id].visible => Overlay_hide(rects[id]) = rects[id]
        /\ Overlay_show(Overlay_show(rects[id])) = Overlay_show(rects[id])
        /\ Overlay_hide(Overlay_hide(rects[id])) = Overlay_hide(rects[id])
    /\ \A id \in DOMAIN points :
        /\ points[id].visible => Point_show(points[id]) = points[id]
        /\ ~points[id].visible => Point_hide(points[id]) = points[id]
        /\ Point_show(Point_show(points[id])) = Point_show(points[id])
        /\ Point_hide(Point_hide(points[id])) = Point_hide(points[id])

(* A rectangle hidden while a resize is in progress, at the time of    *)
(* the last call.                                                      *)
C34_Witness ==
    /\ ncalls = MaxCalls
    /\ grab = <<>>
    /\ \E id \in DOMAIN rects : ~rects[id].visible /\ rects[id].resizing

(* The record of an id in a namespace of a document, if any.           *)
RecordIn(doc, ns, j) == IF j \in DOMAIN doc[ns] THEN <<doc[ns][j]>> ELSE <<>>
FileRecordIn(f, ns, j) == IF f = <<>> THEN <<>> ELSE RecordIn(f[1], ns, j)
Namespaces == {"rects", "points"}
RecordIds == RectIds \cup PointIds
Released == PointerReleased(Manager)
ReleasedNamespace == IF grab[1].kind = "rect" THEN "rects" ELSE "points"

InitTwo ==
    /\ StartedWith("drain", OtherManager)
    /\ file = StoredFile
    /\ rect_configs = LoadedConfig(file).rects
    /\ point_configs = LoadedConfig(file).points
    /\ disk = EmptyDict
    /\ io = [step |-> "idle"]

SpecTwo == InitTwo /\ [][NextJoined]_vars

(* C36: destroy() on a manager leaves the markers of another manager   *)
(* of the process as they are: visible, and in the registry.           *)
C36_DestroyLeavesOthers ==
    /\ other = OtherManager
    /\ DOMAIN other.rects \subseteq overlay_registry
    /\ DOMAIN other.points \subseteq point_registry
====
